---- MODULE Spec2Model ----
(***************************************************************************)
(* Model of the fops-caddy-maintenance request gate: the ServeHTTP state   *)
(* machine of MaintenanceHandler (fopsMaintenance.go), the access decision *)
(* it runs (path bypass, client address, allow-list, Basic-Auth), and the  *)
(* administrative toggle (fopsMaintenanceAdminApi.go) that mutates the     *)
(* shared maintenance state while requests are in flight.                  *)
(*                                                                         *)
(* Text is modelled as a sequence of one-character strings, an IPv4        *)
(* address text as a sequence of octets, and time as ticks of which        *)
(* PollTicks make one polling interval (one second).                       *)
(***************************************************************************)
EXTENDS Integers, Sequences, FiniteSets, TLC

\* ------------------------------------------------------------------ bounds
\* ticks per polling interval (the resolution of the clock)
PollTicks == 2
\* largest retention timeout (seconds) a configuration or a toggle carries
MaxTimeout == 2
\* handlers that can be loaded at the same time
NumHandlers == 2
\* entries of allowed_ips up to which parseAllowedIPs is called again
MaxAllowedIPs == 5

\* ------------------------------------------------------- string primitives
\* strings.HasPrefix
HasPrefix(s, p) ==
    /\ Len(p) <= Len(s)
    /\ SubSeq(s, 1, Len(p)) = p

\* strings.HasSuffix
HasSuffix(s, p) ==
    /\ Len(p) <= Len(s)
    /\ SubSeq(s, Len(s) - Len(p) + 1, Len(s)) = p

\* strings.TrimSuffix
TrimSuffix(s, p) ==
    IF HasSuffix(s, p) THEN SubSeq(s, 1, Len(s) - Len(p)) ELSE s

\* strings.Index for a one-character needle; 0 when absent
IndexOf(s, c) ==
    IF \E i \in 1..Len(s) : s[i] = c
    THEN CHOOSE i \in 1..Len(s) : s[i] = c /\ \A j \in 1..(i - 1) : s[j] # c
    ELSE 0

\* -------------------------------------------------------------- bypass path
\* the normalisation isPathBypassed applies to the path and to every entry
NormalizePath(p) ==
    LET t == TrimSuffix(p, <<"/">>)
    IN  IF t = <<>> THEN <<"/">> ELSE t

\* the prefix of an entry that ends in "/*"
WildcardPrefix(bp) ==
    LET t == TrimSuffix(bp, <<"/", "*">>)
    IN  IF t = <<>> THEN <<"/">> ELSE t

\* one iteration of the loop over BypassPaths
BypassEntryMatches(path, entry) ==
    LET bp == NormalizePath(entry)
    IN  \/ path = bp
        \/ /\ HasSuffix(bp, <<"/", "*">>)
           /\ HasPrefix(path, WildcardPrefix(bp))

isPathBypassed(c, path) ==
    /\ Len(c.BypassPaths) # 0
    /\ \E i \in 1..Len(c.BypassPaths) :
          BypassEntryMatches(NormalizePath(path), c.BypassPaths[i])

\* ------------------------------------------------------------ IP addresses
NoIP == <<>>
NoBits == -1

\* net.ParseIP on a dotted quad: four octets in 0..255, anything else is nil
ParseIP(t) ==
    IF Len(t) = 4 /\ \A i \in 1..4 : t[i] \in 0..255 THEN t ELSE NoIP

\* number of leading bits of octet i covered by a prefix of `bits` bits
OctetBits(bits, i) ==
    LET n == bits - 8 * (i - 1)
    IN  IF n < 0 THEN 0 ELSE IF n > 8 THEN 8 ELSE n

Pow2(n) == IF n = 0 THEN 1 ELSE IF n = 1 THEN 2 ELSE IF n = 2 THEN 4
           ELSE IF n = 3 THEN 8 ELSE IF n = 4 THEN 16 ELSE IF n = 5 THEN 32
           ELSE IF n = 6 THEN 64 ELSE IF n = 7 THEN 128 ELSE 256

\* net.ParseCIDR: the entry parses when its address does and 0 <= bits <= 32
CIDRValid(e) == ParseIP(e.addr) # NoIP /\ e.bits \in 0..32

\* net.IPNet.Contains
NetContains(n, ip) ==
    \A i \in 1..4 :
        ip[i] \div Pow2(8 - OctetBits(n.bits, i))
            = n.addr[i] \div Pow2(8 - OctetBits(n.bits, i))

\* strings.Contains(entry, "/"): the entry is written in CIDR notation
IsCIDREntry(e) == e.bits # NoBits

\* the loop of parseAllowedIPs / parseTrustedProxies over entries i..Len:
\* literals and networks are appended in turn and the first entry that does
\* not parse ends the loop with an error, leaving what was appended so far
RECURSIVE ParseEntries(_, _, _)
ParseEntries(entries, i, acc) ==
    IF i > Len(entries) THEN acc
    ELSE IF IsCIDREntry(entries[i])
         THEN IF ~CIDRValid(entries[i]) THEN [acc EXCEPT !.err = TRUE]
              ELSE ParseEntries(entries, i + 1,
                                [acc EXCEPT !.nets = Append(@, entries[i])])
         ELSE IF ParseIP(entries[i].addr) = NoIP THEN [acc EXCEPT !.err = TRUE]
              ELSE ParseEntries(entries, i + 1,
                                [acc EXCEPT !.ips = Append(@, entries[i].addr)])

parseAllowedIPs(entries) ==
    ParseEntries(entries, 1, [err |-> FALSE, ips |-> <<>>, nets |-> <<>>])

\* strings.TrimSpace(entry) == "": the entry is empty or blank
IsBlankEntry(e) == e.addr = <<>> /\ e.bits = NoBits

\* parseTrustedProxies: header trust with an empty trusted_proxies list is an
\* error; blank entries are skipped, the others parsed as the allowed IPs are
parseTrustedProxies(useForwardedHeaders, entries) ==
    IF useForwardedHeaders /\ Len(entries) = 0
    THEN [err |-> TRUE, ips |-> <<>>, nets |-> <<>>]
    ELSE ParseEntries(SelectSeq(entries, LAMBDA e : ~IsBlankEntry(e)), 1,
                      [err |-> FALSE, ips |-> <<>>, nets |-> <<>>])

\* variant: only the literal addresses are compared
isIPAllowed_LiteralsOnly(c, clientIP) ==
    LET ip == ParseIP(clientIP)
    IN  /\ ip # NoIP
        /\ \E i \in 1..Len(c.allowedIndividualIPs) : c.allowedIndividualIPs[i] = ip

isIPAllowed(c, clientIP) ==
    LET ip == ParseIP(clientIP)
    IN  IF ip = NoIP THEN FALSE
        ELSE \/ \E i \in 1..Len(c.allowedIndividualIPs) : ip = c.allowedIndividualIPs[i]
             \/ \E i \in 1..Len(c.allowedNetworks) : NetContains(c.allowedNetworks[i], ip)

isTrustedProxy(c, ip) ==
    IF ip = NoIP THEN FALSE
    ELSE \/ \E i \in 1..Len(c.trustedProxyIPs) : ip = c.trustedProxyIPs[i]
         \/ \E i \in 1..Len(c.trustedProxyNetworks) : NetContains(c.trustedProxyNetworks[i], ip)

\* variant: the rightmost entry that parses is taken, trusted proxy or not
RECURSIVE ScanForwardedFor_KeepsProxies(_, _, _)
ScanForwardedFor_KeepsProxies(c, parts, i) ==
    IF i = 0 THEN NoIP
    ELSE IF parts[i] = <<>> THEN ScanForwardedFor_KeepsProxies(c, parts, i - 1)
    ELSE IF ParseIP(parts[i]) = NoIP THEN ScanForwardedFor_KeepsProxies(c, parts, i - 1)
    ELSE parts[i]

\* the rightmost X-Forwarded-For entry that parses and is not a trusted
\* proxy, scanning from index i down to 1; NoIP when there is none
RECURSIVE ScanForwardedFor(_, _, _)
ScanForwardedFor(c, parts, i) ==
    IF i = 0 THEN NoIP
    ELSE IF parts[i] = <<>> THEN ScanForwardedFor(c, parts, i - 1)
    ELSE IF ParseIP(parts[i]) = NoIP THEN ScanForwardedFor(c, parts, i - 1)
    ELSE IF isTrustedProxy(c, ParseIP(parts[i])) THEN ScanForwardedFor(c, parts, i - 1)
    ELSE parts[i]

\* variant: the forwarded headers are read whoever the direct peer is
getClientIP_AnyPeer(c, r) ==
    LET clientIP == r.remote
        fromXFF  == ScanForwardedFor(c, r.xff, Len(r.xff))
    IN  IF ~c.UseForwardedHeaders THEN clientIP
        ELSE IF fromXFF # NoIP THEN fromXFF
        ELSE IF r.xrip # <<>> /\ ParseIP(r.xrip) # NoIP
                /\ ~isTrustedProxy(c, ParseIP(r.xrip)) THEN r.xrip
        ELSE clientIP

\* getClientIP: r.remote is the host of RemoteAddr (port stripped by
\* net.SplitHostPort), r.xff the comma-separated X-Forwarded-For entries,
\* r.xrip the X-Real-IP value (<<>> when absent)
getClientIP(c, r) ==
    LET clientIP == r.remote
        remoteIP == ParseIP(clientIP)
        fromXFF  == ScanForwardedFor(c, r.xff, Len(r.xff))
    IN  IF ~c.UseForwardedHeaders THEN clientIP
        ELSE IF remoteIP = NoIP \/ ~isTrustedProxy(c, remoteIP) THEN clientIP
        ELSE IF fromXFF # NoIP THEN fromXFF
        ELSE IF r.xrip # <<>> /\ ParseIP(r.xrip) # NoIP
                /\ ~isTrustedProxy(c, ParseIP(r.xrip)) THEN r.xrip
        ELSE clientIP

\* ------------------------------------------------------------- credentials
\* a stored hash is <<'$', '2', variant, '$', secret>> for bcrypt; the
\* comparison bcrypt.CompareHashAndPassword succeeds when the presented
\* password is the one that was hashed
\* variant: a stored value that is not a bcrypt hash is compared as it is
verifyPassword_PlainText(password, storedHash) ==
    storedHash[Len(storedHash)] = password

verifyPassword(password, storedHash) ==
    IF Len(storedHash) >= 4 /\ storedHash[1] = "$" /\ storedHash[2] = "2"
    THEN storedHash[Len(storedHash)] = password
    ELSE FALSE

\* isAuthenticated: auth is the Authorization header, a record of its scheme
\* ("" when the header is absent), whether the payload is valid base64, and
\* the decoded payload
isAuthenticated(c, auth) ==
    LET decoded == auth.decoded
        colon   == IndexOf(decoded, ":")
        username == SubSeq(decoded, 1, colon - 1)
        password == SubSeq(decoded, colon + 1, Len(decoded))
    IN  IF ~c.HtpasswdFile \/ DOMAIN c.htpasswdEntries = {} THEN FALSE
        ELSE IF auth.scheme = "" THEN FALSE
        ELSE IF auth.scheme # "Basic" THEN FALSE
        ELSE IF ~auth.base64ok THEN FALSE
        ELSE IF colon = 0 THEN FALSE
        ELSE IF username \notin DOMAIN c.htpasswdEntries THEN FALSE
        ELSE verifyPassword(password, c.htpasswdEntries[username])

\* ------------------------------------------------------ maintenance response
defaultRetryAfter == 300

\* variant: no challenge is sent, every maintenance response is a 503
serveMaintenancePage_NoChallenge(c) ==
    [retryAfter |-> IF c.RetryAfter > 0 THEN c.RetryAfter ELSE defaultRetryAfter,
     status     |-> 503,
     wwwAuth    |-> ""]

\* variant: the configured retry_after is written whatever its sign
serveMaintenancePage_RawRetryAfter(c) ==
    [retryAfter |-> IF c.RetryAfter # 0 THEN c.RetryAfter ELSE defaultRetryAfter,
     status     |-> IF c.HtpasswdFile /\ DOMAIN c.htpasswdEntries # {} THEN 401 ELSE 503,
     wwwAuth    |-> IF c.HtpasswdFile /\ DOMAIN c.htpasswdEntries # {}
                    THEN (IF c.AuthRealm # "" THEN c.AuthRealm ELSE "Maintenance Mode")
                    ELSE ""]

\* serveMaintenancePage: the status line and the headers it writes for handler c
serveMaintenancePage(c) ==
    [retryAfter |-> IF c.RetryAfter > 0 THEN c.RetryAfter ELSE defaultRetryAfter,
     status     |-> IF c.HtpasswdFile /\ DOMAIN c.htpasswdEntries # {} THEN 401 ELSE 503,
     wwwAuth    |-> IF c.HtpasswdFile /\ DOMAIN c.htpasswdEntries # {}
                    THEN (IF c.AuthRealm # "" THEN c.AuthRealm ELSE "Maintenance Mode")
                    ELSE ""]

NoResponse == [retryAfter |-> 0, status |-> 0, wwwAuth |-> ""]

\* ---------------------------------------------------------- configurations
IP_Office   == <<10, 1, 2, 3>>
IP_Literal  == <<192, 168, 1, 5>>
IP_Proxy    == <<172, 16, 0, 1>>
IP_Stranger == <<8, 8, 8, 8>>
IP_Garbage  == <<300, 1>>

User     == <<"u">>
Password == <<"p">>

\* the fields of MaintenanceHandler that Provision derives from the others
Provisioned(conf) ==
    [BypassPaths |-> conf.BypassPaths,
     AllowedIPs |-> conf.AllowedIPs,
     UseForwardedHeaders |-> conf.UseForwardedHeaders,
     TrustedProxies |-> conf.TrustedProxies,
     HtpasswdFile |-> conf.HtpasswdFile,
     htpasswdEntries |-> conf.htpasswdEntries,
     AuthRealm |-> conf.AuthRealm,
     RetryAfter |-> conf.RetryAfter,
     DefaultEnabled |-> conf.DefaultEnabled,
     StatusFile |-> conf.StatusFile,
     RequestRetentionModeTimeout |-> conf.RequestRetentionModeTimeout,
     allowedIndividualIPs |-> parseAllowedIPs(conf.AllowedIPs).ips,
     allowedNetworks |-> parseAllowedIPs(conf.AllowedIPs).nets,
     trustedProxyIPs |-> parseTrustedProxies(conf.UseForwardedHeaders, conf.TrustedProxies).ips,
     trustedProxyNetworks |-> parseTrustedProxies(conf.UseForwardedHeaders, conf.TrustedProxies).nets]

\* Provision returns an error for these configurations
ProvisionFails(conf) ==
    \/ parseAllowedIPs(conf.AllowedIPs).err
    \/ parseTrustedProxies(conf.UseForwardedHeaders, conf.TrustedProxies).err

\* a handler with no access rule at all
ConfPlain ==
    [BypassPaths |-> <<>>, AllowedIPs |-> <<>>, UseForwardedHeaders |-> FALSE,
     TrustedProxies |-> <<>>, HtpasswdFile |-> FALSE, htpasswdEntries |-> <<>>,
     AuthRealm |-> "", RetryAfter |-> 0, DefaultEnabled |-> FALSE,
     StatusFile |-> TRUE, RequestRetentionModeTimeout |-> 0]

\* a handler with a bypass path, an allow-list, a trusted proxy and a user
ConfGuarded ==
    [BypassPaths |-> << <<"/", "a", "/", "*">> >>,
     AllowedIPs |-> << [addr |-> <<10, 0, 0, 0>>, bits |-> 8],
                       [addr |-> IP_Literal, bits |-> NoBits] >>,
     UseForwardedHeaders |-> TRUE,
     TrustedProxies |-> << [addr |-> IP_Proxy, bits |-> NoBits] >>,
     HtpasswdFile |-> TRUE,
     htpasswdEntries |-> [n \in {User} |-> <<"$", "2", "a", "$", Password>>],
     AuthRealm |-> "Ops", RetryAfter |-> 60, DefaultEnabled |-> TRUE,
     StatusFile |-> FALSE, RequestRetentionModeTimeout |-> 1]

\* a handler whose htpasswd file holds no user (empty, or comments only),
\* with a negative retry_after as a JSON configuration can carry
ConfNoUsers ==
    [BypassPaths |-> <<>>, AllowedIPs |-> <<>>, UseForwardedHeaders |-> FALSE,
     TrustedProxies |-> <<>>, HtpasswdFile |-> TRUE, htpasswdEntries |-> <<>>,
     AuthRealm |-> "Ops", RetryAfter |-> -1, DefaultEnabled |-> TRUE,
     StatusFile |-> FALSE, RequestRetentionModeTimeout |-> 1]

\* a handler whose only user has an apr1 (MD5) hash, with no auth_realm
ConfLegacyHash ==
    [BypassPaths |-> <<>>, AllowedIPs |-> <<>>, UseForwardedHeaders |-> FALSE,
     TrustedProxies |-> <<>>, HtpasswdFile |-> TRUE,
     htpasswdEntries |-> [n \in {User} |-> <<"$", "apr1", "$", Password>>],
     AuthRealm |-> "", RetryAfter |-> 0, DefaultEnabled |-> TRUE,
     StatusFile |-> FALSE, RequestRetentionModeTimeout |-> 0]

Configs ==
    {c \in {ConfPlain, ConfGuarded, ConfNoUsers, ConfLegacyHash} :
        ~ProvisionFails(c)}

\* --------------------------------------------------------- request inputs
Paths == { <<"/", "a", "/", "b">>, <<"/", "b">> }

Remotes == {IP_Office, IP_Proxy, IP_Stranger}

ForwardedFors == { <<>>, <<IP_Literal, IP_Garbage, IP_Proxy>> }

RealIPs == { <<>>, IP_Office }

Authorizations ==
    { [scheme |-> "", base64ok |-> FALSE, decoded |-> <<>>],
      [scheme |-> "Basic", base64ok |-> TRUE, decoded |-> <<"u", ":", "p">>],
      [scheme |-> "Basic", base64ok |-> TRUE, decoded |-> <<"u", ":", "x">>] }

ReqInputs ==
    [path : Paths, remote : Remotes, xff : ForwardedFors, xrip : RealIPs,
     auth : Authorizations]

\* what the three access checks answer for a request, each taken alone
Facts(c, in) ==
    [path |-> isPathBypassed(c, in.path),
     ip   |-> isIPAllowed(c, getClientIP(c, in)),
     auth |-> isAuthenticated(c, in.auth)]

\* ------------------------------------------------------------------ state
VARIABLES
    cfg,           \* the provisioned MaintenanceHandler (static configuration)
    enabled,       \* MaintenanceHandler.enabled
    RequestRetentionModeTimeout,  \* MaintenanceHandler.RequestRetentionModeTimeout
    ctxDone,       \* h.ctx.Done() is closed (configuration unloaded, shutdown)
    statusFile,    \* what reading the handler's status file gives
    sinceOff,      \* ticks since enabled was last switched to false (capped)
    req,           \* per request: the position of its ServeHTTP call and its result
    \* statement-level view of the goroutines that touch one handler
    pc,            \* per goroutine: the source line it executes next
    enabledMux,    \* MaintenanceHandler.enabledMux: its writer and its readers
    loc,           \* per goroutine: its local variables
    \* the admin surface over several handlers
    maintenanceHandlers,  \* the package-level registry, a sequence of handlers
    hs,            \* per handler: its fields
    files,         \* per status-file path: the file's content
    reply,         \* what the last admin call returned
    lastToggle,    \* the last successful toggle, while nothing else intervened
    \* the loading of one handler's configuration and what it then answers
    handler,       \* the MaintenanceHandler that Provision parses
    probe          \* the last question put to the handler and its answer

concVars == <<pc, enabledMux, loc>>

adminVars == <<maintenanceHandlers, hs, files, reply, lastToggle>>

loadVars == <<handler, probe>>

vars == <<cfg, enabled, RequestRetentionModeTimeout, ctxDone,
          statusFile, sinceOff, req, concVars, adminVars, loadVars>>

\* the ServeHTTP calls that are followed. A call writes none of the shared
\* fields (after Provision, toggle alone does), so calls meet only through toggle,
\* the handler's context and the clock, and one call is followed against
\* every schedule of those.
Reqs == {1}

NotOff == -1
SinceCap == PollTicks + 1
\* the hold clock of a request stops counting past the longest deadline
HeldCap == MaxTimeout * PollTicks + 1

\* a request whose ServeHTTP call has not started
IdleReq ==
    [pc |-> "idle",          \* idle, timer (before time.NewTimer), hold, done
     snapEnabled |-> FALSE,  \* `enabled` as read under RLock at entry
     \* RequestRetentionModeTimeout as read at entry (until the timer exists)
     snapTimeout |-> 0,
     \* what the access checks answer for the request (kept when they run)
     facts |-> [path |-> FALSE, ip |-> FALSE, auth |-> FALSE],
     checks |-> <<>>,        \* the access checks run, in order
     dur |-> 0,              \* seconds the deadline timer was created with
     left |-> 0,             \* ticks until timer.C fires
     poll |-> 0,             \* ticks until the pending time.After fires
     held |-> 0,             \* ticks spent in the hold loop
     stayedOn |-> TRUE,      \* `enabled` was true during the whole hold
     offFor |-> NotOff,      \* sinceOff when the hold ended, NotOff if enabled
     gone |-> FALSE,         \* the client has disconnected
     nextCalls |-> 0,        \* calls of next.ServeHTTP
     pageWrites |-> 0,       \* calls of serveMaintenancePage
     cause |-> "",
     resp |-> NoResponse]

\* the ways a hold ends
HoldCauses == {"timeout", "cancel", "released"}

\* none of the access checks lets the request through
Denied(q) == ~q.facts.path /\ ~q.facts.ip /\ ~q.facts.auth

\* ------------------------------------------------------------ Provision
\* What a status file holds: kind "none" when there is no file, kind
\* "unreadable" for a file os.ReadFile fails on, kind "text" for bytes that
\* are not a JSON object, kind "object" for a JSON object, with its members
\* <<key, value text>>.
NoFile == [kind |-> "none", members |-> <<>>]

Unreadable == [kind |-> "unreadable", members |-> <<>>]

NotJSON == [kind |-> "text", members |-> <<>>]

\* variant: the record written does not depend on the flag
StatusRecord_AlwaysOff(e) ==
    [kind |-> "object", members |-> << <<"enabled", "false">> >>]

\* json.Marshal of struct{Enabled bool `json:"enabled"`}: {"enabled":e}
StatusRecord(e) ==
    [kind |-> "object",
     members |-> << <<"enabled", IF e THEN "true" ELSE "false">> >>]

\* the members json.Unmarshal assigns to the field Enabled: the key matches
\* whatever its case
EnabledMembers(content) ==
    {i \in DOMAIN content.members :
        content.members[i][1] \in {"enabled", "Enabled"}}

\* json.Unmarshal of the status file into struct{Enabled bool} returns no
\* error: the bytes are a JSON object, and a member for Enabled holds a
\* boolean or null
StatusFileParses(content) ==
    /\ content.kind = "object"
    /\ \A i \in EnabledMembers(content) :
           content.members[i][2] \in {"true", "false", "null"}

\* status.Enabled after a json.Unmarshal without error: the last boolean
\* given for the field, the zero value when there is none
StatusEnabled(content) ==
    LET set == {i \in EnabledMembers(content) :
                   content.members[i][2] \in {"true", "false"}}
    IN  IF set = {} THEN FALSE
        ELSE content.members[CHOOSE i \in set : \A j \in set : j <= i][2] = "true"

\* variant: whatever was read is taken as the status
ProvisionEnabled_FileOnly(c, content) ==
    StatusEnabled(content)

\* Provision, lines 120-140: the initial value of `enabled`
ProvisionEnabled(c, content) ==
    IF /\ c.StatusFile
       /\ content.kind \notin {"none", "unreadable"}
       /\ StatusFileParses(content)
    THEN StatusEnabled(content)
    ELSE c.DefaultEnabled

\* the request-level view is at rest: no ServeHTTP call is followed
GateIdle ==
    /\ sinceOff = 0
    /\ req = [r \in Reqs |-> IdleReq]

\* the statement-level view is not in use
ConcIdle ==
    /\ pc = <<>>
    /\ enabledMux = <<>>
    /\ loc = <<>>

\* no configuration is being loaded
LoadIdle ==
    /\ handler = <<>>
    /\ probe = <<>>

\* the admin surface over several handlers is not in use
AdminIdle ==
    /\ maintenanceHandlers = <<>>
    /\ hs = <<>>
    /\ files = <<>>
    /\ reply = <<>>
    /\ lastToggle = <<>>

Init ==
    /\ ConcIdle
    /\ AdminIdle
    /\ LoadIdle
    /\ cfg \in {Provisioned(c) : c \in Configs}
    /\ statusFile \in (IF cfg.StatusFile
                       THEN {NoFile, StatusRecord(TRUE), NotJSON}
                       ELSE {NoFile})
    /\ enabled = ProvisionEnabled(cfg, statusFile)
    /\ RequestRetentionModeTimeout = cfg.RequestRetentionModeTimeout
    /\ ctxDone = FALSE
    /\ sinceOff = 0
    /\ req = [r \in Reqs |-> IdleReq]

\* ------------------------------------------------------------ ServeHTTP
\* variant: retention counts as enabled for any non-zero timeout
temporaryModeEnabled_NonZero(timeout) == timeout # 0

\* line 585
temporaryModeEnabled(timeout) == timeout > 0

\* variant: the allow-list is consulted before the bypass paths
AccessDecision_IPFirst(c, in) ==
    IF isIPAllowed(c, getClientIP(c, in))
    THEN [cause |-> "ip", checks |-> <<"ip">>]
    ELSE IF isPathBypassed(c, in.path)
    THEN [cause |-> "path", checks |-> <<"ip", "path">>]
    ELSE IF isAuthenticated(c, in.auth)
    THEN [cause |-> "auth", checks |-> <<"ip", "path", "auth">>]
    ELSE [cause |-> "deny", checks |-> <<"ip", "path", "auth">>]

\* variant: an allowed address still has to authenticate when credentials
\* are configured
AccessDecision_AuthRequired(c, in) ==
    IF isPathBypassed(c, in.path)
    THEN [cause |-> "path", checks |-> <<"path">>]
    ELSE IF isIPAllowed(c, getClientIP(c, in))
            /\ (~c.HtpasswdFile \/ isAuthenticated(c, in.auth))
    THEN [cause |-> "ip", checks |-> <<"path", "ip">>]
    ELSE IF isAuthenticated(c, in.auth)
    THEN [cause |-> "auth", checks |-> <<"path", "ip", "auth">>]
    ELSE [cause |-> "deny", checks |-> <<"path", "ip", "auth">>]

\* lines 592-635: the access checks in the order the handler runs them
AccessDecision(c, in) ==
    IF isPathBypassed(c, in.path)
    THEN [cause |-> "path", checks |-> <<"path">>]
    ELSE IF isIPAllowed(c, getClientIP(c, in))
    THEN [cause |-> "ip", checks |-> <<"path", "ip">>]
    ELSE IF isAuthenticated(c, in.auth)
    THEN [cause |-> "auth", checks |-> <<"path", "ip", "auth">>]
    ELSE [cause |-> "deny", checks |-> <<"path", "ip", "auth">>]

\* variant: Retry-After is set before the request is handed on
Forward_WithRetryAfter(q, why) ==
    [q EXCEPT !.pc = "done", !.nextCalls = @ + 1, !.cause = why,
              !.resp = [NoResponse EXCEPT !.retryAfter = defaultRetryAfter],
              !.left = 0, !.poll = 0, !.gone = FALSE]

\* return next.ServeHTTP(w, r)
Forward(q, why) ==
    [q EXCEPT !.pc = "done", !.nextCalls = @ + 1, !.cause = why,
              !.left = 0, !.poll = 0, !.gone = FALSE]

\* return serveMaintenancePage(r, w, h)
ServePage(q, why) ==
    [q EXCEPT !.pc = "done", !.pageWrites = @ + 1, !.cause = why,
              !.resp = serveMaintenancePage(cfg),
              !.left = 0, !.poll = 0, !.gone = FALSE]

\* variant: the pass-through test also requires retention to be off
EntryOutcome_HoldWhenDisabled(q, d) ==
    IF ~q.snapEnabled /\ ~temporaryModeEnabled(q.snapTimeout)
    THEN Forward(q, "disabled")
    ELSE IF d.cause # "deny"
         THEN Forward([q EXCEPT !.checks = d.checks], d.cause)
    ELSE IF ~temporaryModeEnabled(q.snapTimeout)
         THEN ServePage([q EXCEPT !.checks = d.checks], "immediate")
    ELSE [q EXCEPT !.checks = d.checks, !.pc = "timer"]

\* lines 588-643: what ServeHTTP does with the entry snapshot in q and the
\* access decision d: forward, answer at once, or go on to hold the request
EntryOutcome(q, d) ==
    IF ~q.snapEnabled THEN Forward(q, "disabled")
    ELSE IF d.cause # "deny"
         THEN Forward([q EXCEPT !.checks = d.checks], d.cause)
    ELSE IF ~temporaryModeEnabled(q.snapTimeout)
         THEN ServePage([q EXCEPT !.checks = d.checks], "immediate")
    ELSE [q EXCEPT !.checks = d.checks, !.pc = "timer"]

\* lines 582-643: entry snapshot under RLock, access decision, immediate
\* outcomes
Enter(r, in) ==
    /\ req[r].pc = "idle"
    /\ req' = [req EXCEPT ![r] =
                 EntryOutcome([@ EXCEPT !.snapEnabled = enabled,
                                        !.snapTimeout = RequestRetentionModeTimeout,
                                        !.facts = IF enabled THEN Facts(cfg, in)
                                                  ELSE @],
                              AccessDecision(cfg, in))]
    /\ UNCHANGED <<concVars, adminVars, loadVars>>
    /\ UNCHANGED <<cfg, enabled, RequestRetentionModeTimeout, ctxDone,
                   statusFile, sinceOff>>

\* variant: the duration is taken in clock ticks instead of seconds
TimerTicks_NoUnit(seconds) == IF seconds > 0 THEN seconds ELSE 0

\* time.Duration(h.RequestRetentionModeTimeout) * time.Second, in ticks; a
\* timer created with a duration <= 0 fires at once
TimerTicks(seconds) == IF seconds > 0 THEN seconds * PollTicks ELSE 0

\* line 646 and the first evaluation of the select: the deadline timer is
\* created from the field as it is now (read without the lock), and the
\* first time.After is armed
StartTimer(r) ==
    /\ req[r].pc = "timer"
    /\ req' = [req EXCEPT ![r] =
                 [@ EXCEPT !.pc = "hold",
                           !.dur = RequestRetentionModeTimeout,
                           !.left = TimerTicks(RequestRetentionModeTimeout),
                           !.poll = PollTicks,
                           !.stayedOn = enabled,
                           !.snapTimeout = 0]]
    /\ UNCHANGED <<concVars, adminVars, loadVars>>
    /\ UNCHANGED <<cfg, enabled, RequestRetentionModeTimeout, ctxDone,
                   statusFile, sinceOff>>

\* what ends a hold records whether maintenance was off at that moment
EndHold(q) == [q EXCEPT !.offFor = IF enabled THEN NotOff ELSE sinceOff]

\* case <-timer.C
Timeout(r) ==
    /\ req[r].pc = "hold"
    /\ req[r].left = 0
    /\ req' = [req EXCEPT ![r] = ServePage(EndHold(@), "timeout")]
    /\ UNCHANGED <<concVars, adminVars, loadVars>>
    /\ UNCHANGED <<cfg, enabled, RequestRetentionModeTimeout, ctxDone,
                   statusFile, sinceOff>>

\* case <-h.ctx.Done()
Cancelled(r) ==
    /\ req[r].pc = "hold"
    /\ ctxDone
    /\ req' = [req EXCEPT ![r] = ServePage(EndHold(@), "cancel")]
    /\ UNCHANGED <<concVars, adminVars, loadVars>>
    /\ UNCHANGED <<cfg, enabled, RequestRetentionModeTimeout, ctxDone,
                   statusFile, sinceOff>>

\* variant: the next handler is called but the loop goes on
PollResult_NoReturn(q, en) ==
    IF ~en THEN [q EXCEPT !.nextCalls = @ + 1, !.poll = PollTicks]
    ELSE [q EXCEPT !.poll = PollTicks]

\* variant: the check tests the value read at entry, not the value just read
PollResult_StaleSnapshot(q, en) ==
    IF ~q.snapEnabled THEN Forward(EndHold(q), "released")
    ELSE [q EXCEPT !.poll = PollTicks]

\* variant: the access decision is applied again when maintenance is off
PollResult_Recheck(q, en) ==
    IF ~en THEN (IF Denied(q) THEN ServePage(EndHold(q), "timeout")
                 ELSE Forward(EndHold(q), "released"))
    ELSE [q EXCEPT !.poll = PollTicks]

\* variant: the deadline timer is created again on every turn of the loop
PollResult_RearmsTimer(q, en) ==
    IF ~en THEN Forward(EndHold(q), "released")
    ELSE [q EXCEPT !.poll = PollTicks, !.left = TimerTicks(q.dur)]

\* variant: the periodic check releases the request whatever it read
PollResult_ReleasesAlways(q, en) == Forward(EndHold(q), "released")

\* variant: the periodic check goes on waiting whatever it read
PollResult_IgnoresFlag(q, en) == [q EXCEPT !.poll = PollTicks]

\* lines 660-666: what a periodic check does with the value it read
PollResult(q, en) ==
    IF ~en THEN Forward(EndHold(q), "released")
    ELSE [q EXCEPT !.poll = PollTicks]

\* case <-time.After(1000 * time.Millisecond)
Poll(r) ==
    /\ req[r].pc = "hold"
    /\ req[r].poll = 0
    /\ req' = [req EXCEPT ![r] = PollResult(@, enabled)]
    /\ UNCHANGED <<concVars, adminVars, loadVars>>
    /\ UNCHANGED <<cfg, enabled, RequestRetentionModeTimeout, ctxDone,
                   statusFile, sinceOff>>

\* ------------------------------------------------------------ host events
\* the configuration that owns the handler is unloaded, or the server shuts
\* down: h.ctx is cancelled
CtxCancel ==
    /\ ~ctxDone
    /\ ctxDone' = TRUE
    /\ UNCHANGED <<concVars, adminVars, loadVars>>
    /\ UNCHANGED <<cfg, enabled, RequestRetentionModeTimeout, statusFile,
                   sinceOff, req>>

\* the client of a held request closes its connection: the request's own
\* context (r.Context()) is cancelled; ServeHTTP never reads that context
ClientDisconnect(r) ==
    /\ req[r].pc = "hold"
    /\ ~req[r].gone
    /\ req' = [req EXCEPT ![r].gone = TRUE]
    /\ UNCHANGED <<concVars, adminVars, loadVars>>
    /\ UNCHANGED <<cfg, enabled, RequestRetentionModeTimeout, ctxDone,
                   statusFile, sinceOff>>

\* a case of the select of request q is ready
SelectReady(q) == q.left = 0 \/ q.poll = 0 \/ ctxDone

\* one tick of the clock seen by a held request
TickReq(q) ==
    IF q.pc = "hold"
    THEN [q EXCEPT !.left = @ - 1, !.poll = @ - 1,
                   !.held = IF @ < HeldCap THEN @ + 1 ELSE @]
    ELSE q

\* the clock advances by one tick; a goroutine whose select has a ready
\* case, or that is between two statements, runs before the clock advances
Tick ==
    /\ \E r \in Reqs : req[r].pc = "hold"
    /\ \A r \in Reqs : /\ req[r].pc # "timer"
                       /\ req[r].pc = "hold" => ~SelectReady(req[r])
    /\ req' = [r \in Reqs |-> TickReq(req[r])]
    /\ sinceOff' = IF ~enabled /\ sinceOff < SinceCap THEN sinceOff + 1 ELSE sinceOff
    /\ UNCHANGED <<concVars, adminVars, loadVars>>
    /\ UNCHANGED <<cfg, enabled, RequestRetentionModeTimeout, ctxDone, statusFile>>

\* ---------------------------------------------------------------- toggle
\* the calls of /maintenance/set: a wrong method, a body that does not
\* decode, or a body {enabled, request_retention_mode_timeout} whose second
\* field is optional; writeFails: persistStatusFiles returns an error
AdminCalls ==
    {a \in [method : {"POST", "GET"}, wellFormed : BOOLEAN, enabled : BOOLEAN,
            hasTimeout : BOOLEAN, timeout : (-1)..MaxTimeout, writeFails : BOOLEAN] :
        /\ ~a.hasTimeout => a.timeout = 0
        /\ (a.method # "POST" \/ ~a.wellFormed) =>
               (~a.enabled /\ ~a.hasTimeout /\ ~a.writeFails)
        /\ a.method # "POST" => a.wellFormed}

\* json.Decode into struct{Enabled; RequestRetentionModeTimeout}: a field
\* that is absent keeps its zero value
DecodeToggle(a) ==
    [Enabled |-> a.enabled,
     RequestRetentionModeTimeout |-> IF a.hasTimeout THEN a.timeout ELSE 0]

\* isMaintenanceHandlerActive, for a handler that has a Caddy context
isMaintenanceHandlerActive == ~ctxDone

\* the status code toggle answers with
ToggleStatus(a) ==
    IF a.method # "POST" THEN 405
    ELSE IF ~a.wellFormed THEN 400
    ELSE IF ~isMaintenanceHandlerActive THEN 404
    ELSE IF cfg.StatusFile /\ a.writeFails THEN 500
    ELSE 200

\* lines 138-143: the write of both fields under enabledMux.Lock
SetState(e, t) ==
    /\ enabled' = e
    /\ RequestRetentionModeTimeout' = t
    /\ sinceOff' = IF ~e /\ ~enabled THEN sinceOff ELSE 0
    /\ req' = [r \in Reqs |->
                 IF req[r].pc = "hold" /\ ~e
                 THEN [req[r] EXCEPT !.stayedOn = FALSE]
                 ELSE req[r]]

\* AdminHandler.toggle
toggle(a) ==
    /\ IF ToggleStatus(a) = 200
       THEN /\ statusFile' = IF cfg.StatusFile
                             THEN StatusRecord(DecodeToggle(a).Enabled)
                             ELSE statusFile
            /\ SetState(DecodeToggle(a).Enabled,
                        DecodeToggle(a).RequestRetentionModeTimeout)
       ELSE UNCHANGED <<statusFile, enabled, RequestRetentionModeTimeout,
                        sinceOff, req>>
    /\ UNCHANGED <<concVars, adminVars, loadVars>>
    /\ UNCHANGED <<cfg, ctxDone>>

\* ------------------------------------------------------------ specification
Next ==
    \/ \E r \in Reqs, in \in ReqInputs : Enter(r, in)
    \/ \E r \in Reqs : StartTimer(r)
    \/ \E r \in Reqs : Timeout(r)
    \/ \E r \in Reqs : Cancelled(r)
    \/ \E r \in Reqs : Poll(r)
    \/ \E r \in Reqs : ClientDisconnect(r)
    \/ CtxCancel
    \/ Tick
    \/ \E a \in AdminCalls : toggle(a)

Spec == Init /\ [][Next]_vars

\* the Go runtime runs every runnable goroutine and fires every timer
Fairness ==
    /\ WF_vars(Tick)
    /\ \A r \in Reqs : /\ WF_vars(StartTimer(r))
                       /\ WF_vars(Timeout(r))
                       /\ WF_vars(Cancelled(r))
                       /\ WF_vars(Poll(r))

LiveSpec == Spec /\ Fairness

TypeOK ==
    /\ enabled \in BOOLEAN
    /\ RequestRetentionModeTimeout \in (-1)..MaxTimeout
    /\ \A r \in Reqs : req[r].pc \in {"idle", "timer", "hold", "done"}

\* ------------------------------------------- goroutines, statement by statement
\* The goroutines that touch one handler, each followed statement by
\* statement: pc holds the source line a goroutine executes next ("idle"
\* when it is not running, "done" when Provision has returned).
Procs == {"ServeHTTP", "toggle", "getStatus", "Provision"}

\* sync.RWMutex: RLock waits while a writer holds the lock
RLock(m, p) == [m EXCEPT !.readers = @ \cup {p}]

\* variant: the read lock is released by a defer, when the function returns
RUnlock_Deferred(m, p) == m

RUnlock(m, p) == [m EXCEPT !.readers = @ \ {p}]

\* sync.RWMutex: Lock waits while anyone holds the lock
Lock(m, p) == [m EXCEPT !.writer = p]

Unlock(m, p) == [m EXCEPT !.writer = ""]

\* how goroutine p holds enabledMux: "W", "R" or "" (not at all)
Holds(p) ==
    IF enabledMux.writer = p THEN "W"
    ELSE IF p \in enabledMux.readers THEN "R" ELSE ""

\* the accesses to the shared maintenance state that the statement at line l
\* of goroutine p makes
NextAccess(p, l) ==
    CASE p = "ServeHTTP" /\ l = "584" ->
           {[field |-> "enabled", write |-> FALSE],
            [field |-> "RequestRetentionModeTimeout", write |-> FALSE]}
      [] p = "ServeHTTP" /\ l = "646" ->
           {[field |-> "RequestRetentionModeTimeout", write |-> FALSE]}
      [] p = "ServeHTTP" /\ l = "661" -> {[field |-> "enabled", write |-> FALSE]}
      [] p = "getStatus" /\ l = "74" -> {[field |-> "enabled", write |-> FALSE]}
      [] p = "toggle" /\ l = "140" ->
           {[field |-> "enabled", write |-> TRUE],
            [field |-> "RequestRetentionModeTimeout", write |-> TRUE]}
      [] p = "Provision" /\ l = "137" -> {[field |-> "enabled", write |-> TRUE]}
      [] OTHER -> {}

\* goroutine p is suspended in the select of the hold loop
Suspended(p) == p = "ServeHTTP" /\ pc[p] = "651"

\* the next statement of goroutine p reads or writes the status file
FileIO(p) ==
    \/ p = "toggle" /\ pc[p] = "120"
    \/ p = "Provision" /\ pc[p] = "122"

\* the locals of the goroutines: ServeHTTP's enabled and
\* temporaryModeEnabled, toggle's decoded body and whether its write of the
\* status file fails, Provision's os.ReadFile result
NoLocals ==
    [enabled |-> FALSE, temporaryModeEnabled |-> FALSE,
     req |-> [Enabled |-> FALSE, RequestRetentionModeTimeout |-> 0],
     writeFails |-> FALSE, data |-> NoFile]

\* Provision has been called on a handler decoded from its configuration
ConcInit ==
    /\ GateIdle
    /\ AdminIdle
    /\ LoadIdle
    /\ cfg \in {Provisioned(c) : c \in Configs}
    /\ statusFile \in (IF cfg.StatusFile
                       THEN {NoFile, StatusRecord(TRUE), NotJSON}
                       ELSE {NoFile})
    /\ enabled = FALSE
    /\ RequestRetentionModeTimeout = cfg.RequestRetentionModeTimeout
    /\ ctxDone = FALSE
    /\ pc = [p \in Procs |-> IF p = "Provision" THEN "95" ELSE "idle"]
    /\ enabledMux = [writer |-> "", readers |-> {}]
    /\ loc = NoLocals

\* variant: a call that leaves the hold loop switches the retention off
ServeHTTPFields_ClearsTimeout(l) ==
    /\ enabled' = enabled
    /\ statusFile' = statusFile
    /\ RequestRetentionModeTimeout' =
          IF l = "idle" THEN 0 ELSE RequestRetentionModeTimeout

\* what a statement of ServeHTTP that leads to line l does to the handler's
\* fields and to the status file: nothing
ServeHTTPFields(l) ==
    UNCHANGED <<enabled, RequestRetentionModeTimeout, statusFile>>

\* ServeHTTP of fopsMaintenance.go, lines 582-669, one statement a step
ServeHTTPStep ==
    LET p == "ServeHTTP"
        goto(l) == /\ pc' = [pc EXCEPT ![p] = l]
                   /\ ServeHTTPFields(l)
        temp == temporaryModeEnabled(RequestRetentionModeTimeout)
    IN
    /\ \/ /\ pc[p] = "idle"
          /\ pc["Provision"] = "done"
          /\ goto("583")
          /\ UNCHANGED <<enabledMux, loc>>
       \/ /\ pc[p] = "583"
          /\ enabledMux.writer = ""
          /\ enabledMux' = RLock(enabledMux, p)
          /\ goto("584")
          /\ UNCHANGED loc
       \/ /\ pc[p] = "584"
          /\ loc' = [loc EXCEPT !.enabled = enabled,
                                !.temporaryModeEnabled = temp]
          /\ goto("586")
          /\ UNCHANGED enabledMux
       \/ /\ pc[p] = "586"
          /\ enabledMux' = RUnlock(enabledMux, p)
          /\ goto("588")
          /\ UNCHANGED loc
       \/ /\ pc[p] = "588"
          /\ \E in \in ReqInputs :
                goto(IF ~loc.enabled \/ AccessDecision(cfg, in).cause # "deny"
                        \/ ~loc.temporaryModeEnabled
                     THEN "idle" ELSE "646")
          /\ UNCHANGED <<enabledMux, loc>>
       \/ /\ pc[p] = "646"
          /\ goto("651")
          /\ UNCHANGED <<enabledMux, loc>>
       \/ /\ pc[p] = "651"
          /\ \/ goto("idle")     \* timer.C, or h.ctx.Done() when closed
             \/ goto("660")      \* time.After
          /\ UNCHANGED <<enabledMux, loc>>
       \/ /\ pc[p] = "660"
          /\ enabledMux.writer = ""
          /\ enabledMux' = RLock(enabledMux, p)
          /\ goto("661")
          /\ UNCHANGED loc
       \/ /\ pc[p] = "661"
          /\ loc' = [loc EXCEPT !.enabled = enabled]
          /\ goto("662")
          /\ UNCHANGED enabledMux
       \/ /\ pc[p] = "662"
          /\ enabledMux' = RUnlock(enabledMux, p)
          /\ goto("663")
          /\ UNCHANGED loc
       \/ /\ pc[p] = "663"
          /\ goto(IF loc.enabled THEN "651" ELSE "idle")
          /\ UNCHANGED <<enabledMux, loc>>
    /\ UNCHANGED <<cfg, ctxDone, sinceOff, req, adminVars, loadVars>>

\* AdminHandler.toggle on the one registered handler, lines 87-148, for a
\* call that passes the method, body and registry tests
toggleStep ==
    LET p == "toggle"
        goto(l) == pc' = [pc EXCEPT ![p] = l]
    IN
    /\ \/ /\ pc[p] = "idle"
          /\ pc["Provision"] # "95"
          /\ \E a \in AdminCalls :
                /\ ToggleStatus(a) \in {200, 500}
                /\ loc' = [loc EXCEPT !.req = DecodeToggle(a),
                                      !.writeFails = a.writeFails]
          /\ goto("120")
          /\ UNCHANGED <<enabledMux, enabled, RequestRetentionModeTimeout,
                         statusFile>>
       \/ /\ pc[p] = "120"
          /\ IF cfg.StatusFile /\ loc.writeFails
             THEN goto("idle") /\ UNCHANGED statusFile
             ELSE /\ goto("139")
                  /\ statusFile' = IF cfg.StatusFile
                                   THEN StatusRecord(loc.req.Enabled)
                                   ELSE statusFile
          /\ UNCHANGED <<enabledMux, loc, enabled, RequestRetentionModeTimeout>>
       \/ /\ pc[p] = "139"
          /\ enabledMux.writer = "" /\ enabledMux.readers = {}
          /\ enabledMux' = Lock(enabledMux, p)
          /\ goto("140")
          /\ UNCHANGED <<loc, enabled, RequestRetentionModeTimeout, statusFile>>
       \/ /\ pc[p] = "140"
          /\ enabled' = loc.req.Enabled
          /\ RequestRetentionModeTimeout' = loc.req.RequestRetentionModeTimeout
          /\ goto("142")
          /\ UNCHANGED <<enabledMux, loc, statusFile>>
       \/ /\ pc[p] = "142"
          /\ enabledMux' = Unlock(enabledMux, p)
          /\ loc' = [loc EXCEPT !.req = NoLocals.req, !.writeFails = FALSE]
          /\ goto("idle")
          /\ UNCHANGED <<enabled, RequestRetentionModeTimeout, statusFile>>
    /\ UNCHANGED <<cfg, ctxDone, sinceOff, req, adminVars, loadVars>>

\* AdminHandler.getStatus on the one registered handler, lines 62-85
getStatusStep ==
    LET p == "getStatus"
        goto(l) == pc' = [pc EXCEPT ![p] = l]
    IN
    /\ \/ /\ pc[p] = "idle"
          /\ pc["Provision"] # "95"
          /\ isMaintenanceHandlerActive
          /\ goto("73")
          /\ UNCHANGED enabledMux
       \/ /\ pc[p] = "73"
          /\ enabledMux.writer = ""
          /\ enabledMux' = RLock(enabledMux, p)
          /\ goto("74")
       \/ /\ pc[p] = "74"
          /\ goto("75")
          /\ UNCHANGED enabledMux
       \/ /\ pc[p] = "75"
          /\ enabledMux' = RUnlock(enabledMux, p)
          /\ goto("idle")
    /\ UNCHANGED <<cfg, enabled, RequestRetentionModeTimeout, ctxDone,
                   statusFile, sinceOff, req, loc, adminVars, loadVars>>

\* Provision, lines 89-141: registration, the read of the status file, the
\* assignment of `enabled` under the lock (lines 127-129 or 136-138)
ProvisionStep ==
    LET p == "Provision"
        goto(l) == pc' = [pc EXCEPT ![p] = l]
    IN
    /\ \/ /\ pc[p] = "95"
          /\ goto("122")
          /\ UNCHANGED <<enabledMux, loc, enabled>>
       \/ /\ pc[p] = "122"
          /\ loc' = [loc EXCEPT !.data = statusFile]
          /\ goto("136")
          /\ UNCHANGED <<enabledMux, enabled>>
       \/ /\ pc[p] = "136"
          /\ enabledMux.writer = "" /\ enabledMux.readers = {}
          /\ enabledMux' = Lock(enabledMux, p)
          /\ goto("137")
          /\ UNCHANGED <<loc, enabled>>
       \/ /\ pc[p] = "137"
          /\ enabled' = ProvisionEnabled(cfg, loc.data)
          /\ goto("138")
          /\ UNCHANGED <<enabledMux, loc>>
       \/ /\ pc[p] = "138"
          /\ enabledMux' = Unlock(enabledMux, p)
          /\ loc' = [loc EXCEPT !.data = NoFile]
          /\ goto("done")
          /\ UNCHANGED enabled
    /\ UNCHANGED <<cfg, RequestRetentionModeTimeout, ctxDone, statusFile,
                   sinceOff, req, adminVars, loadVars>>

\* the handler's context is cancelled while the goroutines run
ConcCancel ==
    /\ pc["Provision"] = "done"
    /\ ~ctxDone
    /\ ctxDone' = TRUE
    /\ UNCHANGED <<cfg, enabled, RequestRetentionModeTimeout, statusFile,
                   sinceOff, req, concVars, adminVars, loadVars>>

ConcNext ==
    \/ ServeHTTPStep
    \/ toggleStep
    \/ getStatusStep
    \/ ProvisionStep
    \/ ConcCancel

ConcSpec == ConcInit /\ [][ConcNext]_vars

\* ------------------------------------------ the admin surface, several handlers
\* The admin endpoints over the package-level registry, each call taken as a
\* whole: handlers are provisioned and unloaded, /maintenance/set and
\* /maintenance/status are called, a write of a status file may fail.
Handlers == 1..NumHandlers

\* the status files a configuration may name; "" is no status_file
StatusPaths == {"a", "b"}

\* the temporary file of atomicWriteFile (os.CreateTemp in the same directory)
TmpPath == ".maintenance-status-*"

\* what a status file may hold before the program first writes it
FileContents ==
    {NoFile, Unreadable, NotJSON, StatusRecord(TRUE),
     [kind |-> "object", members |-> <<>>],
     [kind |-> "object", members |-> << <<"enabled", "\"on\"">> >>],
     [kind |-> "object", members |-> << <<"Enabled", "true">> >>]}

\* the status_file and default_enabled the configuration gives handler h
\* (it gives no request_retention_mode_timeout): the first two handlers may
\* share a status file, have one each, or the second has none
HandlerConfs(h) ==
    IF h = 1 THEN {[StatusFile |-> "a", DefaultEnabled |-> FALSE]}
    ELSE IF h = 2 THEN [StatusFile : {"a", "b", ""}, DefaultEnabled : {TRUE}]
    ELSE {[StatusFile |-> "b", DefaultEnabled |-> FALSE]}

\* a handler that is not loaded: never provisioned, or its context cancelled
\* and its fields out of the admin surface's reach
NoHandler(c) ==
    [state |-> "inactive", StatusFile |-> c.StatusFile,
     DefaultEnabled |-> c.DefaultEnabled,
     enabled |-> FALSE, RequestRetentionModeTimeout |-> 0]

\* no fault is injected
NoFault == [at |-> 0, op |-> ""]

\* the faults a call of /maintenance/set can meet: jsonMarshalFunc returns
\* an error, or the at-th status file fails at one operation of
\* persistStatusFiles: os.Stat, os.ReadFile, or in atomicWriteFile
\* os.CreateTemp, file.Write (or Chmod, Close) or os.Rename
Faults ==
    {NoFault, [at |-> 0, op |-> "marshal"]} \cup
    [at : 1..2, op : {"stat", "read", "write"}] \cup
    [at : {1}, op : {"create", "rename"}]

\* the calls of /maintenance/set over several handlers
SetCalls ==
    {a \in [method : {"POST", "GET"}, wellFormed : BOOLEAN, enabled : BOOLEAN,
            hasTimeout : BOOLEAN, timeout : 0..1, fault : Faults] :
        /\ ~a.hasTimeout => a.timeout = 0
        /\ a.hasTimeout => a.timeout = 1
        /\ (a.method # "POST" \/ ~a.wellFormed) =>
               (~a.enabled /\ ~a.hasTimeout /\ a.fault = NoFault)
        /\ a.fault # NoFault => ~a.hasTimeout}

\* no admin call has answered since the registry or a handler last changed
NoReply ==
    [op |-> "", code |-> 0, enabled |-> FALSE, err |-> "", path |-> "",
     req |-> [method |-> "", wellFormed |-> FALSE, marshalFails |-> FALSE]]

\* lastToggle when a handler was provisioned since the last call of
\* /maintenance/set that reached the status files, when that call failed, or
\* when none was made. Otherwise lastToggle holds the body of that call and
\* the status files it wrote.
NoToggle ==
    [set |-> FALSE, Enabled |-> FALSE, RequestRetentionModeTimeout |-> 0,
     paths |-> {}]

AdminInit ==
    /\ GateIdle
    /\ ConcIdle
    /\ LoadIdle
    /\ cfg = Provisioned(ConfPlain)
    /\ enabled = FALSE
    /\ RequestRetentionModeTimeout = 0
    /\ ctxDone = FALSE
    /\ statusFile = NoFile
    /\ maintenanceHandlers = <<>>
    /\ hs \in {[h \in Handlers |-> NoHandler(c[h])] :
                  c \in {x \in [Handlers -> UNION {HandlerConfs(h) : h \in Handlers}] :
                            \A h \in Handlers : x[h] \in HandlerConfs(h)}}
    /\ files \in {f \in [StatusPaths \cup {TmpPath} -> FileContents] :
                     f["b"] = NoFile /\ f[TmpPath] = NoFile}
    /\ reply = NoReply
    /\ lastToggle = NoToggle

\* variant: the registry is handed out as it is
pruneInactiveHandlers_KeepsAll(list) == list

\* pruneInactiveHandlersLocked
pruneInactiveHandlers(list) ==
    SelectSeq(list, LAMBDA h : hs[h].state = "active")

\* registerMaintenanceHandler
registerMaintenanceHandler(list, h) ==
    LET kept == pruneInactiveHandlers(list)
    IN  IF \E i \in DOMAIN kept : kept[i] = h THEN kept ELSE Append(kept, h)

\* getUniqueStatusFiles over handlers[i..], acc being the files seen so far
RECURSIVE getUniqueStatusFiles(_, _, _)
getUniqueStatusFiles(handlers, i, acc) ==
    IF i > Len(handlers) THEN acc
    ELSE LET f == hs[handlers[i]].StatusFile
         IN  getUniqueStatusFiles(handlers, i + 1,
                 IF f = "" \/ (\E j \in DOMAIN acc : acc[j] = f)
                 THEN acc ELSE Append(acc, f))

\* variant: the data is written over the status file itself
atomicWriteFile_InPlace(fs, path, data, failOp) ==
    IF failOp = "create" THEN [err |-> TRUE, fs |-> fs]
    ELSE IF failOp = "write" THEN [err |-> TRUE, fs |-> [fs EXCEPT ![path] = NotJSON]]
    ELSE [err |-> failOp = "rename", fs |-> [fs EXCEPT ![path] = data]]

\* atomicWriteFile: the data goes to a temporary file that is renamed over
\* the path when it is complete; the deferred cleanup removes the temporary
\* file when an operation failed. failOp is the operation that fails, if any.
atomicWriteFile(fs, path, data, failOp) ==
    IF failOp = "create" THEN [err |-> TRUE, fs |-> fs]
    ELSE LET written == [fs EXCEPT ![TmpPath] =
                            IF failOp = "write" THEN NotJSON ELSE data]
         IN  IF failOp \in {"write", "rename"}
             THEN [err |-> TRUE, fs |-> [written EXCEPT ![TmpPath] = NoFile]]
             ELSE [err |-> FALSE,
                   fs |-> [written EXCEPT ![path] = written[TmpPath],
                                          ![TmpPath] = NoFile]]

\* rollbackPersistedStatusFiles over backups[1..i], the last one first
RECURSIVE rollbackPersistedStatusFiles(_, _, _)
rollbackPersistedStatusFiles(fs, backups, i) ==
    IF i = 0 THEN fs
    ELSE LET b == backups[i]
         IN  rollbackPersistedStatusFiles(
                 IF ~b.Exists THEN [fs EXCEPT ![b.Path] = NoFile]
                 ELSE atomicWriteFile(fs, b.Path, b.Data, "").fs,
                 backups, i - 1)

\* persistStatusFiles from paths[i] on: what it returns (err, path) and the
\* files it leaves
RECURSIVE persistStatusFiles(_, _, _, _, _, _)
persistStatusFiles(fs, paths, i, data, fault, backups) ==
    IF i > Len(paths) THEN [err |-> "", path |-> "", fs |-> fs]
    ELSE LET path == paths[i]
             here == IF fault.at = i THEN fault.op ELSE ""
             exists == fs[path].kind # "none"
             w == atomicWriteFile(fs, path, data, here)
         IN  IF here = "stat" THEN [err |-> "stat", path |-> path, fs |-> fs]
             ELSE IF exists /\ (here = "read" \/ fs[path] = Unreadable)
                  THEN [err |-> "read", path |-> path, fs |-> fs]
             ELSE IF w.err
                  THEN [err |-> "write", path |-> path,
                        fs |-> rollbackPersistedStatusFiles(w.fs, backups,
                                                            Len(backups))]
             ELSE persistStatusFiles(w.fs, paths, i + 1, data, fault,
                      Append(backups, [Path |-> path, Exists |-> exists,
                                       Data |-> fs[path]]))

\* Provision of handler h, a new object decoded from its configuration
AdminProvision(h) ==
    /\ hs[h].state # "active"
    /\ maintenanceHandlers' = registerMaintenanceHandler(maintenanceHandlers, h)
    /\ hs' = [hs EXCEPT ![h] =
                [@ EXCEPT !.state = "active",
                          !.enabled = ProvisionEnabled(
                                [StatusFile |-> hs[h].StatusFile # "",
                                 DefaultEnabled |-> hs[h].DefaultEnabled],
                                IF hs[h].StatusFile = "" THEN NoFile
                                ELSE files[hs[h].StatusFile]),
                          !.RequestRetentionModeTimeout = 0]]
    /\ reply' = NoReply
    /\ lastToggle' = NoToggle
    /\ UNCHANGED <<files, cfg, enabled, RequestRetentionModeTimeout, ctxDone,
                   statusFile, sinceOff, req, concVars, loadVars>>

\* Provision is called again on handler h while it is loaded: the handler is
\* registered again and its initial state assigned again
AdminProvisionAgain(h) ==
    /\ hs[h].state = "active"
    /\ maintenanceHandlers' = registerMaintenanceHandler(maintenanceHandlers, h)
    /\ hs' = [hs EXCEPT ![h].enabled =
                 ProvisionEnabled(
                     [StatusFile |-> hs[h].StatusFile # "",
                      DefaultEnabled |-> hs[h].DefaultEnabled],
                     IF hs[h].StatusFile = "" THEN NoFile
                     ELSE files[hs[h].StatusFile])]
    /\ reply' = NoReply
    /\ lastToggle' = NoToggle
    /\ UNCHANGED <<files, cfg, enabled, RequestRetentionModeTimeout, ctxDone,
                   statusFile, sinceOff, req, concVars, loadVars>>

\* the configuration that owns handler h is unloaded: its context is
\* cancelled; the registry keeps the handler until the next call prunes it
AdminCancel(h) ==
    /\ hs[h].state = "active"
    /\ hs' = [hs EXCEPT ![h] = NoHandler(hs[h])]
    /\ reply' = NoReply
    /\ UNCHANGED <<maintenanceHandlers, files, lastToggle, cfg, enabled,
                   RequestRetentionModeTimeout, ctxDone, statusFile, sinceOff,
                   req, concVars, loadVars>>

\* variant: the first registered handler answers for all
statusEnabled_First(handlers) ==
    Len(handlers) > 0 /\ hs[handlers[1]].enabled

\* lines 72-80: the flag getStatus reports
statusEnabled(handlers) ==
    \E i \in DOMAIN handlers : hs[handlers[i]].enabled

\* AdminHandler.getStatus, lines 62-85
getStatus ==
    LET handlers == pruneInactiveHandlers(maintenanceHandlers)
    IN
    /\ maintenanceHandlers' = handlers
    /\ reply' = [NoReply EXCEPT
                    !.op = "status",
                    !.code = IF Len(handlers) = 0 THEN 404 ELSE 200,
                    !.enabled = statusEnabled(handlers)]
    /\ UNCHANGED <<hs, files, lastToggle, cfg, enabled,
                   RequestRetentionModeTimeout, ctxDone, statusFile, sinceOff,
                   req, concVars, loadVars>>

\* variant: the method is tested after the body is decoded
toggleOutcome_DecodeFirst(a) ==
    LET handlers == pruneInactiveHandlers(maintenanceHandlers)
        paths == getUniqueStatusFiles(handlers, 1, <<>>)
        p == persistStatusFiles(files, paths, 1, StatusRecord(a.enabled),
                                a.fault, <<>>)
        none == [err |-> "", path |-> "", fs |-> files]
    IN  IF ~a.wellFormed /\ a.method = "POST" THEN [none EXCEPT !.err = "400"]
        ELSE IF a.method # "POST" THEN [none EXCEPT !.err = "400"]
        ELSE IF Len(handlers) = 0 THEN [none EXCEPT !.err = "404"]
        ELSE IF Len(paths) = 0 THEN none
        ELSE IF a.fault.op = "marshal" THEN [none EXCEPT !.err = "marshal"]
        ELSE p

\* AdminHandler.toggle, lines 88-136: the error the call ends with, "" when
\* it goes on to set the handlers, and the files it leaves
toggleOutcome(a) ==
    LET handlers == pruneInactiveHandlers(maintenanceHandlers)
        paths == getUniqueStatusFiles(handlers, 1, <<>>)
        p == persistStatusFiles(files, paths, 1, StatusRecord(a.enabled),
                                a.fault, <<>>)
        none == [err |-> "", path |-> "", fs |-> files]
    IN  IF a.method # "POST" THEN [none EXCEPT !.err = "405"]
        ELSE IF ~a.wellFormed THEN [none EXCEPT !.err = "400"]
        ELSE IF Len(handlers) = 0 THEN [none EXCEPT !.err = "404"]
        ELSE IF Len(paths) = 0 THEN none
        ELSE IF a.fault.op = "marshal" THEN [none EXCEPT !.err = "marshal"]
        ELSE p

\* variant: only the first registered handler is set
toggleSet_FirstOnly(handlers, a) ==
    [h \in Handlers |->
        IF Len(handlers) > 0 /\ handlers[1] = h
        THEN [hs[h] EXCEPT !.enabled = a.enabled,
                           !.RequestRetentionModeTimeout = a.timeout]
        ELSE hs[h]]

\* lines 138-143: every handler of the list is set, each under its own lock
toggleSet(handlers, a) ==
    [h \in Handlers |->
        IF \E i \in DOMAIN handlers : handlers[i] = h
        THEN [hs[h] EXCEPT !.enabled = a.enabled,
                           !.RequestRetentionModeTimeout = a.timeout]
        ELSE hs[h]]

\* variant: the handlers are set before the status files are written
toggleMemory_BeforePersist(code, handlers, a) ==
    IF code \in {200, 500} THEN toggleSet(handlers, a) ELSE hs

\* the handlers' fields after the call: lines 138-143 are reached only when
\* nothing before them returned
toggleMemory(code, handlers, a) ==
    IF code = 200 THEN toggleSet(handlers, a) ELSE hs

\* AdminHandler.toggle over the registry, lines 87-148
toggleHandlers(a) ==
    \E o \in {toggleOutcome(a)} :
    LET handlers == pruneInactiveHandlers(maintenanceHandlers)
        code == CASE o.err = "" -> 200
                  [] o.err \in {"405", "400", "404"} ->
                        (IF o.err = "405" THEN 405
                         ELSE IF o.err = "400" THEN 400 ELSE 404)
                  [] OTHER -> 500
    IN
    /\ maintenanceHandlers' = IF code \in {405, 400} THEN maintenanceHandlers
                              ELSE handlers
    /\ files' = o.fs
    /\ hs' = toggleMemory(code, handlers, a)
    /\ lastToggle' = IF code = 200
                     THEN [set |-> TRUE, Enabled |-> a.enabled,
                           RequestRetentionModeTimeout |-> a.timeout,
                           paths |-> {hs[handlers[i]].StatusFile :
                                         i \in DOMAIN handlers} \ {""}]
                     ELSE IF code = 500 THEN NoToggle
                     ELSE lastToggle
    /\ reply' = [op |-> "set", code |-> code,
                 enabled |-> code = 200 /\ a.enabled,
                 err |-> IF code = 500 THEN o.err ELSE "",
                 path |-> o.path,
                 req |-> [method |-> a.method, wellFormed |-> a.wellFormed,
                          marshalFails |-> a.fault.op = "marshal"]]
    /\ UNCHANGED <<cfg, enabled, RequestRetentionModeTimeout, ctxDone,
                   statusFile, sinceOff, req, concVars, loadVars>>

AdminNext ==
    \/ \E h \in Handlers : AdminProvision(h)
    \/ \E h \in Handlers : AdminProvisionAgain(h)
    \/ \E h \in Handlers : AdminCancel(h)
    \/ getStatus
    \/ \E a \in SetCalls : toggleHandlers(a)

AdminSpec == AdminInit /\ [][AdminNext]_vars

\* ------------------------------------------- two calls of toggle at once
\* The admin server runs each request in its own goroutine. Two calls of
\* /maintenance/set that pass the method, body and registry tests run side by
\* side over the same provisioned handlers, every status file written and
\* every handler set in a step of its own; nothing fails.
Togglers == {"A", "B"}

\* the locals of a call of toggle: its decoded body, the status files it
\* collected and how far it has gone through them or through the handlers
NoCall ==
    [Enabled |-> FALSE, RequestRetentionModeTimeout |-> 0, statusFiles |-> <<>>,
     i |-> 0]

TogglersInit ==
    /\ GateIdle
    /\ LoadIdle
    /\ cfg = Provisioned(ConfPlain)
    /\ enabled = FALSE
    /\ RequestRetentionModeTimeout = 0
    /\ ctxDone = FALSE
    /\ statusFile = NoFile
    /\ enabledMux = <<>>
    /\ maintenanceHandlers = [h \in Handlers |-> h]
    /\ hs \in {[h \in Handlers |-> [NoHandler(c[h]) EXCEPT !.state = "active"]] :
                  c \in {x \in [Handlers -> UNION {HandlerConfs(h) : h \in Handlers}] :
                            \A h \in Handlers : x[h] \in HandlerConfs(h)}}
    /\ files = [p \in StatusPaths \cup {TmpPath} |-> NoFile]
    /\ reply = NoReply
    /\ lastToggle = NoToggle
    /\ pc = [t \in Togglers |-> "idle"]
    /\ loc = [t \in Togglers |-> NoCall]

\* lines 95-119: the body is decoded, the handlers and their status files
\* are collected
ToggleBegin(t, e, timeout) ==
    /\ pc[t] = "idle"
    /\ \E paths \in {getUniqueStatusFiles(maintenanceHandlers, 1, <<>>)} :
          /\ loc' = [loc EXCEPT ![t] =
                        [Enabled |-> e, RequestRetentionModeTimeout |-> timeout,
                         statusFiles |-> paths, i |-> 1]]
          /\ pc' = [pc EXCEPT ![t] = IF Len(paths) > 0 THEN "persist" ELSE "set"]
    /\ UNCHANGED <<maintenanceHandlers, hs, files>>
    /\ UNCHANGED <<cfg, enabled, RequestRetentionModeTimeout, ctxDone,
                   statusFile, sinceOff, req, enabledMux, reply, lastToggle,
                   loadVars>>

\* one turn of the loop of persistStatusFiles, lines 267-292
TogglePersist(t) ==
    /\ pc[t] = "persist"
    /\ files' = atomicWriteFile(files, loc[t].statusFiles[loc[t].i],
                                StatusRecord(loc[t].Enabled), "").fs
    /\ IF loc[t].i < Len(loc[t].statusFiles)
       THEN /\ loc' = [loc EXCEPT ![t].i = @ + 1]
            /\ pc' = pc
       ELSE /\ loc' = [loc EXCEPT ![t].i = 1]
            /\ pc' = [pc EXCEPT ![t] = "set"]
    /\ UNCHANGED <<maintenanceHandlers, hs>>
    /\ UNCHANGED <<cfg, enabled, RequestRetentionModeTimeout, ctxDone,
                   statusFile, sinceOff, req, enabledMux, reply, lastToggle,
                   loadVars>>

\* one turn of the loop of lines 138-143: a handler is set under its lock
ToggleSetOne(t) ==
    /\ pc[t] = "set"
    /\ hs' = [hs EXCEPT ![maintenanceHandlers[loc[t].i]] =
                 [@ EXCEPT !.enabled = loc[t].Enabled,
                           !.RequestRetentionModeTimeout =
                                loc[t].RequestRetentionModeTimeout]]
    /\ IF loc[t].i < Len(maintenanceHandlers)
       THEN /\ loc' = [loc EXCEPT ![t].i = @ + 1]
            /\ pc' = pc
       ELSE /\ loc' = [loc EXCEPT ![t].i = 0, ![t].statusFiles = <<>>]
            /\ pc' = [pc EXCEPT ![t] = "done"]
    /\ UNCHANGED <<maintenanceHandlers, files>>
    /\ UNCHANGED <<cfg, enabled, RequestRetentionModeTimeout, ctxDone,
                   statusFile, sinceOff, req, enabledMux, reply, lastToggle,
                   loadVars>>

TogglersNext ==
    \/ \E t \in Togglers, e \in BOOLEAN, timeout \in 0..1 :
          ToggleBegin(t, e, timeout)
    \/ \E t \in Togglers : TogglePersist(t)
    \/ \E t \in Togglers : ToggleSetOne(t)

TogglersSpec == TogglersInit /\ [][TogglersNext]_vars

\* ------------------------------------------------ loading a configuration
\* One handler is decoded from a configuration and provisioned, which parses
\* its allowed IPs and trusted proxies and may fail; the handler is then asked
\* about candidate addresses and requests.

\* no allowed_ips_file is configured
NoIPsFile == [set |-> FALSE, lines |-> <<>>]

\* a line of an allowed_ips_file: an entry, a comment or a blank line
EntryLine(e) == [kind |-> "entry", entry |-> e]

CommentLine == [kind |-> "comment", entry |-> [addr |-> <<>>, bits |-> NoBits]]

\* loadIPsFromFile: comments and blank lines are skipped, every other line
\* must parse, and the first that does not makes the whole file an error
loadIPsFromFile(file) ==
    LET kept == SelectSeq(file.lines, LAMBDA l : l.kind = "entry")
        bad == \E i \in DOMAIN kept :
                  IF IsCIDREntry(kept[i].entry) THEN ~CIDRValid(kept[i].entry)
                  ELSE ParseIP(kept[i].entry.addr) = NoIP
    IN  IF bad THEN [err |-> TRUE, ips |-> <<>>]
        ELSE [err |-> FALSE, ips |-> [i \in DOMAIN kept |-> kept[i].entry]]

\* h.parseAllowedIPs, lines 144-180: the lists are reset, the entries of the
\* file are appended to AllowedIPs, and the entries are parsed in turn
loadAllowedIPs(c) ==
    LET f == loadIPsFromFile(c.AllowedIPsFile)
        all == c.AllowedIPs \o f.ips
        parsed == parseAllowedIPs(all)
    IN  IF c.AllowedIPsFile.set /\ f.err
        THEN [err |-> TRUE, AllowedIPs |-> c.AllowedIPs, ips |-> <<>>, nets |-> <<>>]
        ELSE [err |-> parsed.err, AllowedIPs |-> all,
              ips |-> parsed.ips, nets |-> parsed.nets]

\* Provision, lines 97-105: the handler after the allowed IPs and the trusted
\* proxies were parsed, err naming the step that failed
ProvisionParse(c) ==
    LET a == loadAllowedIPs(c)
        t == parseTrustedProxies(c.UseForwardedHeaders, c.TrustedProxies)
        base == [BypassPaths |-> c.BypassPaths,
                 AllowedIPs |-> a.AllowedIPs,
                 AllowedIPsFile |-> c.AllowedIPsFile,
                 UseForwardedHeaders |-> c.UseForwardedHeaders,
                 TrustedProxies |-> c.TrustedProxies,
                 HtpasswdFile |-> c.HtpasswdFile,
                 htpasswdEntries |-> <<>>,
                 allowedIndividualIPs |-> a.ips,
                 allowedNetworks |-> a.nets,
                 trustedProxyIPs |-> <<>>,
                 trustedProxyNetworks |-> <<>>,
                 err |-> "failed to parse allowed IPs"]
    IN  IF a.err THEN base
        ELSE IF t.err
        THEN [base EXCEPT !.trustedProxyIPs = t.ips,
                          !.trustedProxyNetworks = t.nets,
                          !.err = "failed to parse trusted proxies"]
        ELSE [base EXCEPT !.trustedProxyIPs = t.ips,
                          !.trustedProxyNetworks = t.nets,
                          !.htpasswdEntries = c.htpasswdEntries,
                          !.err = ""]

\* the configurations that are loaded
LoadConfs ==
    {[BypassPaths |-> << <<"/", "a", "/", "*">>, <<"/", "h", "/">> >>,
      AllowedIPs |-> al, AllowedIPsFile |-> af,
      UseForwardedHeaders |-> tp.use, TrustedProxies |-> tp.list,
      HtpasswdFile |-> ht.file, htpasswdEntries |-> ht.entries] :
        al \in { <<>>,
                 <<[addr |-> <<10, 0, 0, 0>>, bits |-> 8],
                   [addr |-> IP_Literal, bits |-> NoBits],
                   [addr |-> <<172, 16, 0, 0>>, bits |-> 12]>>,
                 <<[addr |-> IP_Literal, bits |-> NoBits],
                   [addr |-> IP_Garbage, bits |-> NoBits]>>,
                 <<[addr |-> <<172, 16, 0, 0>>, bits |-> 12],
                   [addr |-> <<10, 0, 0, 0>>, bits |-> 33]>> },
        af \in { NoIPsFile,
                 [set |-> TRUE,
                  lines |-> <<CommentLine, EntryLine([addr |-> IP_Stranger, bits |-> NoBits])>>],
                 [set |-> TRUE,
                  lines |-> <<EntryLine([addr |-> IP_Stranger, bits |-> NoBits]),
                              EntryLine([addr |-> IP_Garbage, bits |-> NoBits])>>] },
        tp \in { [use |-> FALSE, list |-> <<>>],
                 [use |-> FALSE, list |-> <<[addr |-> IP_Proxy, bits |-> NoBits]>>],
                 [use |-> TRUE, list |-> <<>>],
                 [use |-> TRUE, list |-> <<[addr |-> <<>>, bits |-> NoBits]>>],
                 [use |-> TRUE, list |-> <<[addr |-> IP_Proxy, bits |-> NoBits]>>],
                 [use |-> TRUE, list |-> <<[addr |-> <<172, 16, 0, 0>>, bits |-> 12]>>],
                 [use |-> TRUE, list |-> <<[addr |-> IP_Proxy, bits |-> NoBits],
                                           [addr |-> IP_Garbage, bits |-> NoBits]>>] },
        ht \in { [file |-> FALSE, entries |-> <<>>],
                 [file |-> TRUE, entries |-> <<>>],
                 [file |-> TRUE, entries |-> ConfGuarded.htpasswdEntries],
                 [file |-> TRUE, entries |-> ConfLegacyHash.htpasswdEntries] }}

\* the addresses isIPAllowed is asked about
Candidates ==
    {IP_Office, IP_Literal, IP_Proxy, IP_Stranger, IP_Garbage, <<172, 32, 0, 1>>,
     <<>>}

\* the Authorization headers of the requests put to the handler
ProbeAuths ==
    Authorizations \cup
    { [scheme |-> "Bearer", base64ok |-> TRUE, decoded |-> <<"u", ":", "p">>],
      [scheme |-> "Basic", base64ok |-> FALSE, decoded |-> <<>>],
      [scheme |-> "Basic", base64ok |-> TRUE, decoded |-> <<"u", "p">>],
      [scheme |-> "Basic", base64ok |-> TRUE, decoded |-> <<"v", ":", "p">>] }

\* the request paths isPathBypassed is asked about
ProbePaths ==
    { <<>>, <<"/">>, <<"/", "a">>, <<"/", "a", "/">>, <<"/", "a", "/", "b">>,
      <<"/", "a", "b">>, <<"/", "A", "/", "b">>, <<"/", "b">>,
      <<"/", "h">>, <<"/", "h", "/">>, <<"/", "h", "/", "b">>, <<"/", "H">> }

\* the requests put to the handler
ProbeInputs ==
    [path : { <<"/", "b">> },
     remote : Remotes,
     xff : ForwardedFors \cup { <<IP_Proxy>>, <<IP_Stranger, IP_Literal>> },
     xrip : RealIPs \cup { IP_Proxy },
     auth : ProbeAuths]

NoInput ==
    [path |-> <<>>, remote |-> <<>>, xff |-> <<>>, xrip |-> <<>>,
     auth |-> [scheme |-> "", base64ok |-> FALSE, decoded |-> <<>>]]

NoProbe ==
    [fn |-> "", candidate |-> <<>>, in |-> NoInput, clientIP |-> <<>>,
     allowed |-> FALSE, authenticated |-> FALSE, decision |-> ""]

\* the handler as decoded, before Provision
Decoded(c) ==
    [BypassPaths |-> c.BypassPaths,
     AllowedIPs |-> c.AllowedIPs,
     AllowedIPsFile |-> c.AllowedIPsFile,
     UseForwardedHeaders |-> c.UseForwardedHeaders,
     TrustedProxies |-> c.TrustedProxies,
     HtpasswdFile |-> c.HtpasswdFile,
     htpasswdEntries |-> c.htpasswdEntries,
     allowedIndividualIPs |-> <<>>,
     allowedNetworks |-> <<>>,
     trustedProxyIPs |-> <<>>,
     trustedProxyNetworks |-> <<>>,
     err |-> "new"]

LoadInit ==
    /\ GateIdle
    /\ ConcIdle
    /\ AdminIdle
    /\ cfg = Provisioned(ConfPlain)
    /\ enabled = FALSE
    /\ RequestRetentionModeTimeout = 0
    /\ ctxDone = FALSE
    /\ statusFile = NoFile
    /\ handler \in {Decoded(c) : c \in LoadConfs}
    /\ probe = NoProbe

\* Provision parses the configuration of the handler
LoadProvision ==
    /\ handler.err = "new"
    /\ handler' = ProvisionParse(handler)
    /\ probe' = NoProbe
    /\ UNCHANGED <<cfg, enabled, RequestRetentionModeTimeout, ctxDone,
                   statusFile, sinceOff, req, concVars, adminVars>>

\* parseAllowedIPs is called again on the provisioned handler, its
\* configuration left as it is, while the list of entries stays short
LoadParseAgain ==
    /\ handler.err = ""
    /\ probe = NoProbe
    /\ Len(handler.AllowedIPs) < MaxAllowedIPs
    /\ \E a \in {loadAllowedIPs(handler)} :
          handler' = [handler EXCEPT !.AllowedIPs = a.AllowedIPs,
                                     !.allowedIndividualIPs = a.ips,
                                     !.allowedNetworks = a.nets]
    /\ UNCHANGED <<probe, cfg, enabled, RequestRetentionModeTimeout, ctxDone,
                   statusFile, sinceOff, req, concVars, adminVars>>

\* isIPAllowed is called on the handler, whether its Provision succeeded or
\* not; the calls read the handler only, so one call per handler is followed
ProbeIPAllowed(candidate) ==
    /\ handler.err # "new"
    /\ probe = NoProbe
    /\ probe' = [NoProbe EXCEPT !.fn = "isIPAllowed",
                                !.candidate = candidate,
                                !.allowed = isIPAllowed(handler, candidate)]
    /\ UNCHANGED <<handler, cfg, enabled, RequestRetentionModeTimeout, ctxDone,
                   statusFile, sinceOff, req, concVars, adminVars>>

\* isPathBypassed is called on a provisioned handler with a request path
ProbePathBypassed(path) ==
    /\ handler.err = ""
    /\ probe = NoProbe
    /\ probe' = [NoProbe EXCEPT !.fn = "isPathBypassed",
                                !.in = [NoInput EXCEPT !.path = path],
                                !.allowed = isPathBypassed(handler, path)]
    /\ UNCHANGED <<handler, cfg, enabled, RequestRetentionModeTimeout, ctxDone,
                   statusFile, sinceOff, req, concVars, adminVars>>

\* a request reaches the access checks of a provisioned handler (lines 592-635)
ProbeRequest(in) ==
    /\ handler.err = ""
    /\ probe = NoProbe
    /\ probe' = [NoProbe EXCEPT
                    !.fn = "ServeHTTP",
                    !.in = in,
                    !.clientIP = getClientIP(handler, in),
                    !.allowed = isIPAllowed(handler, getClientIP(handler, in)),
                    !.authenticated = isAuthenticated(handler, in.auth),
                    !.decision = AccessDecision(handler, in).cause]
    /\ UNCHANGED <<handler, cfg, enabled, RequestRetentionModeTimeout, ctxDone,
                   statusFile, sinceOff, req, concVars, adminVars>>

LoadNext ==
    \/ LoadProvision
    \/ LoadParseAgain
    \/ \E candidate \in Candidates : ProbeIPAllowed(candidate)
    \/ \E path \in ProbePaths : ProbePathBypassed(path)
    \/ \E in \in ProbeInputs : ProbeRequest(in)

LoadSpec == LoadInit /\ [][LoadNext]_vars

\* ------------------------------------------------------------------ claims
\* C1: a finished ServeHTTP call has either called the next handler exactly
\* once or written the maintenance response exactly once, never both and
\* never neither; a call that has not finished has done neither.
C1_ExactlyOneOutcome ==
    \A r \in Reqs :
        /\ req[r].pc = "done" =>
              \/ req[r].nextCalls = 1 /\ req[r].pageWrites = 0
              \/ req[r].nextCalls = 0 /\ req[r].pageWrites = 1
        /\ req[r].pc # "done" => req[r].nextCalls = 0 /\ req[r].pageWrites = 0

\* a hold that the switch to disabled ended: forwarded once, nothing written
C1_Witness ==
    \E r \in Reqs : /\ req[r].pc = "done"
                    /\ req[r].cause = "released"
                    /\ req[r].nextCalls = 1
                    /\ req[r].pageWrites = 0

C3_TimeoutAtDeadline ==
    \A r \in Reqs :
        /\ (req[r].pc = "hold" /\ req[r].dur > 0) =>
              req[r].held <= req[r].dur * PollTicks
        /\ (req[r].pc = "done" /\ req[r].cause \in HoldCauses /\ req[r].dur > 0
              /\ req[r].stayedOn /\ req[r].cause # "cancel") =>
              /\ req[r].cause = "timeout"
              /\ req[r].pageWrites = 1
              /\ req[r].nextCalls = 0
              /\ req[r].held >= req[r].dur * PollTicks
              /\ req[r].held <= req[r].dur * PollTicks + PollTicks

\* a two-second hold that a periodic check went through, ended by the timer
C3_Witness ==
    \E r \in Reqs : /\ req[r].pc = "done"
                    /\ req[r].cause = "timeout"
                    /\ req[r].dur = 2
                    /\ req[r].stayedOn
                    /\ req[r].held = 2 * PollTicks
                    /\ ~ctxDone

\* C4 as stated: once the cancellation signal of a held request has fired
\* (its client disconnected, or the handler's context was cancelled), the
\* request does not stay in the hold while the clock advances.
C4_CancellationReleases ==
    [][\A r \in Reqs :
          (req[r].pc = "hold" /\ (req[r].gone \/ ctxDone))
          => ~(req'[r].pc = "hold" /\ req'[r].held > req[r].held)]_vars

\* C5: a call whose entry snapshot read enabled = false forwards at once: no
\* access check runs, no timer is created, nothing is written.
C5_PassThrough ==
    \A r \in Reqs :
        (req[r].pc # "idle" /\ ~req[r].snapEnabled) =>
            /\ req[r].pc = "done"
            /\ req[r].cause = "disabled"
            /\ req[r].nextCalls = 1
            /\ req[r].pageWrites = 0
            /\ req[r].checks = <<>>
            /\ req[r].dur = 0
            /\ req[r].held = 0

\* forwarded with maintenance off although a retention timeout was set and
\* the handler has access rules
C5_Witness ==
    \E r \in Reqs : /\ req[r].pc = "done"
                    /\ ~req[r].snapEnabled
                    /\ req[r].snapTimeout > 0
                    /\ cfg.HtpasswdFile
                    /\ req[r].nextCalls = 1

\* C6: a periodic check that reads enabled = false forwards the held request
\* in that very step, without running any access check again, although the
\* request had been denied; a check that goes on holding has read true.
C6_ReleaseWithoutRecheck ==
    [][\A r \in Reqs :
          (/\ req[r].pc = "hold"
           /\ req[r].poll = 0
           /\ req[r].left > 0
           /\ ~ctxDone
           /\ req'[r].pc # "hold" \/ req'[r].poll # 0)
          => IF enabled
             THEN req'[r].pc = "hold" /\ req'[r].poll = PollTicks
             ELSE /\ req'[r].pc = "done"
                  /\ req'[r].cause = "released"
                  /\ req'[r].nextCalls = 1
                  /\ req'[r].pageWrites = 0
                  /\ req'[r].checks = req[r].checks
                  /\ Denied(req[r])]_vars

\* a request denied by a handler that has an allow-list and credentials,
\* forwarded out of the hold
C6_Witness ==
    \E r \in Reqs : /\ req[r].pc = "done"
                    /\ req[r].cause = "released"
                    /\ Denied(req[r])
                    /\ cfg.HtpasswdFile
                    /\ Len(cfg.allowedNetworks) > 0
                    /\ req[r].nextCalls = 1

\* C7: with enabled = true and a retention timeout <= 0 in the entry
\* snapshot, a denied request gets the maintenance response in the same
\* call: no timer, no hold, no time passes.
C7_ImmediateResponse ==
    \A r \in Reqs :
        (/\ req[r].pc \in {"timer", "done"}
         /\ req[r].cause \notin HoldCauses
         /\ req[r].snapEnabled
         /\ Denied(req[r])
         /\ req[r].snapTimeout <= 0) =>
            /\ req[r].pc = "done"
            /\ req[r].cause = "immediate"
            /\ req[r].pageWrites = 1
            /\ req[r].nextCalls = 0
            /\ req[r].dur = 0
            /\ req[r].held = 0

\* answered at once under a negative timeout set through the toggle
C7_Witness ==
    \E r \in Reqs : /\ req[r].pc = "done"
                    /\ req[r].cause = "immediate"
                    /\ req[r].snapTimeout < 0
                    /\ req[r].pageWrites = 1

\* C8: with enabled = true, a request whose path is bypassed is forwarded
\* after the path check alone: the client address is not resolved, no
\* credential is checked, the request is not held.
C8_BypassPathForwarded ==
    \A r \in Reqs :
        (req[r].pc # "idle" /\ req[r].snapEnabled /\ req[r].facts.path) =>
            /\ req[r].pc = "done"
            /\ req[r].cause = "path"
            /\ req[r].nextCalls = 1
            /\ req[r].pageWrites = 0
            /\ req[r].checks = <<"path">>
            /\ req[r].held = 0

\* a bypassed path from an address that is not allowed, without credentials,
\* while a retention timeout is set
C8_Witness ==
    \E r \in Reqs : /\ req[r].pc = "done"
                    /\ req[r].cause = "path"
                    /\ ~req[r].facts.ip
                    /\ ~req[r].facts.auth
                    /\ req[r].snapTimeout > 0

\* C9: with enabled = true the request is forwarded by the access decision
\* exactly when its path is bypassed, or its resolved address is allowed, or
\* its credentials verify, the first of these in that order deciding;
\* otherwise it is denied (answered or held).
C9_AccessDecision ==
    \A r \in Reqs :
        (req[r].pc # "idle" /\ req[r].snapEnabled) =>
            /\ (req[r].cause = "path") <=> req[r].facts.path
            /\ (req[r].cause = "ip") <=> (~req[r].facts.path /\ req[r].facts.ip)
            /\ (req[r].cause = "auth") <=>
                  (~req[r].facts.path /\ ~req[r].facts.ip /\ req[r].facts.auth)
            /\ req[r].cause \in {"path", "ip", "auth"} =>
                  /\ req[r].pc = "done"
                  /\ req[r].nextCalls = 1
                  /\ req[r].pageWrites = 0
            /\ Denied(req[r]) =>
                  /\ req[r].checks = <<"path", "ip", "auth">>
                  /\ req[r].cause \in HoldCauses \cup {"immediate", ""}
                  /\ req[r].cause = "" => req[r].pc \in {"timer", "hold"}

\* an allowed address forwarded although credentials are configured and the
\* request's do not verify
C9_Witness ==
    \E r \in Reqs : /\ req[r].pc = "done"
                    /\ req[r].cause = "ip"
                    /\ cfg.HtpasswdFile
                    /\ ~req[r].facts.auth
                    /\ req[r].nextCalls = 1

C11_HeldResolvedWithinPoll ==
    \A r \in Reqs :
        /\ (req[r].pc = "hold" /\ ~enabled /\ sinceOff >= PollTicks) =>
              (sinceOff = PollTicks /\ SelectReady(req[r]))
        /\ (req[r].pc = "done" /\ req[r].cause \in HoldCauses
              /\ req[r].offFor # NotOff) => req[r].offFor <= PollTicks

\* switched off right after a periodic check of a two-second hold: the
\* request is forwarded a full polling interval later, with a polling
\* interval of its retention time still to run
C11_Witness ==
    \E r \in Reqs : /\ req[r].pc = "done"
                    /\ req[r].cause = "released"
                    /\ req[r].offFor = PollTicks
                    /\ req[r].dur * PollTicks - req[r].held >= PollTicks

\* --------------------------------------------------------- C12, C13, C14
\* C12 as stated: a goroutine whose next statement reads or writes `enabled`
\* or RequestRetentionModeTimeout holds enabledMux for it (the write lock for
\* a write, a read or write lock for a read), unless no toggle is about to
\* write that field at the same moment.
C12_AccessesUnderLock ==
    \A p \in Procs : \A a \in NextAccess(p, pc[p]) :
        \/ IF a.write THEN Holds(p) = "W" ELSE Holds(p) \in {"R", "W"}
        \/ ~(\E b \in NextAccess("toggle", pc["toggle"]) :
                p # "toggle" /\ b.write /\ b.field = a.field)

\* C13: enabledMux is held only from a lock statement to the unlock that
\* follows the access: never by a request suspended in the select of the
\* hold loop, never by toggle or Provision at a statement that reads or
\* writes the status file; so no held request keeps toggle from locking.
C13_LockHeldOnlyForAccess ==
    /\ \A p \in Procs :
          /\ (Suspended(p) \/ FileIO(p)) => Holds(p) = ""
          /\ Holds(p) # "" =>
                \/ NextAccess(p, pc[p]) # {}
                \/ pc[p] \in {"586", "662", "75", "142", "138"}
    /\ (pc["toggle"] = "139" /\ Suspended("ServeHTTP")) =>
          "ServeHTTP" \notin enabledMux.readers

\* toggle holds the write lock while a request is suspended in the hold loop
C13_Witness ==
    /\ Suspended("ServeHTTP")
    /\ pc["toggle"] = "140"
    /\ Holds("toggle") = "W"

\* C14: no statement of ServeHTTP or of getStatus changes `enabled`,
\* RequestRetentionModeTimeout or the status file; once Provision has
\* returned, the two fields and the file change only in a step of toggle.
C14_OnlyToggleWrites ==
    [][/\ (pc'["ServeHTTP"] # pc["ServeHTTP"] \/ pc'["getStatus"] # pc["getStatus"])
          => UNCHANGED <<enabled, RequestRetentionModeTimeout, statusFile>>
       /\ (/\ pc["Provision"] = "done"
           /\ <<enabled, RequestRetentionModeTimeout, statusFile>>' #
                 <<enabled, RequestRetentionModeTimeout, statusFile>>)
          => pc'["toggle"] # pc["toggle"]]_vars

\* a request has left the hold loop and getStatus has read the flag, with
\* maintenance still on and the retention timeout still set
C14_Witness ==
    /\ pc["ServeHTTP"] = "idle"
    /\ pc["getStatus"] = "75"
    /\ loc.temporaryModeEnabled
    /\ enabled
    /\ RequestRetentionModeTimeout > 0

\* C15: persistence round trip. After a successful toggle(e) that wrote a
\* status file, with no later toggle that failed on the files, a handler
\* newly provisioned with that status file starts with enabled = e whatever
\* its DefaultEnabled is; e is the value of the last such toggle.
C15_RoundTrip ==
    [][\A h \in Handlers :
          (/\ hs[h].state = "inactive"
           /\ hs'[h].state = "active"
           /\ lastToggle.set
           /\ hs[h].StatusFile \in lastToggle.paths)
          => hs'[h].enabled = lastToggle.Enabled]_vars

\* a handler provisioned after a toggle (its timeout is the fresh 0, the
\* toggle's was 1 and another handler of the same status file still has it)
\* restored the toggle's value against its DefaultEnabled
C15_Witness ==
    \E h, g \in Handlers :
        /\ hs[h].state = "active"
        /\ hs[g].state = "active"
        /\ hs[h].StatusFile = hs[g].StatusFile
        /\ hs[h].StatusFile # ""
        /\ hs[g].RequestRetentionModeTimeout = 1
        /\ hs[h].RequestRetentionModeTimeout = 0
        /\ hs[h].enabled = hs[g].enabled
        /\ hs[h].enabled # hs[h].DefaultEnabled
        /\ reply = NoReply

\* C16: Provision never fails because of the status file. A handler that is
\* provisioned starts with enabled = DefaultEnabled when no status file is
\* configured or the file is missing, unreadable or not JSON, and with the
\* file's enabled value, whatever DefaultEnabled is, when the file holds a
\* status record.
C16_ProvisionPrecedence ==
    [][\A h \in Handlers :
          (hs[h].state = "inactive" /\ hs'[h].state = "active") =>
              LET f == hs[h].StatusFile
              IN  /\ (f = "" \/ files[IF f = "" THEN "a" ELSE f].kind
                                    \in {"none", "unreadable", "text"})
                        => hs'[h].enabled = hs[h].DefaultEnabled
                  /\ \A e \in BOOLEAN :
                        (f # "" /\ files[IF f = "" THEN "a" ELSE f] = StatusRecord(e))
                        => hs'[h].enabled = e]_vars

\* a handler started enabled by default_enabled beside a status file that
\* cannot be read or is not JSON
C16_Witness ==
    \E h \in Handlers :
        /\ hs[h].state = "active"
        /\ hs[h].StatusFile # ""
        /\ files[IF hs[h].StatusFile = "" THEN "a" ELSE hs[h].StatusFile].kind
               \in {"unreadable", "text"}
        /\ hs[h].DefaultEnabled
        /\ hs[h].enabled
        /\ ~lastToggle.set

\* C17: when writing a status file fails during a toggle, the call is
\* answered with an error (500), the file that could not be written holds
\* what it held before the call, no temporary file is left, and no handler
\* is changed.
C17_FailedWriteKeepsFile ==
    [][(reply'.op = "set" /\ reply'.err = "write") =>
          /\ reply'.code = 500
          /\ files'[reply'.path] = files[reply'.path]
          /\ files'[TmpPath] = NoFile
          /\ hs' = hs]_vars

\* a toggle failed on writing a status file that held the record of an
\* earlier toggle with the other value, and the record is still there
C17_Witness ==
    /\ reply.op = "set"
    /\ reply.code = 500
    /\ reply.err = "write"
    /\ \E h \in Handlers :
          /\ hs[h].state = "active"
          /\ hs[h].StatusFile = reply.path
          /\ hs[h].enabled
          /\ hs[h].RequestRetentionModeTimeout = 1
    /\ files[reply.path] = StatusRecord(TRUE)

\* the handlers that are loaded
ActiveHandlers == {h \in Handlers : hs[h].state = "active"}

\* C18: after a successful toggle with body {enabled: e,
\* request_retention_mode_timeout: t}, every active registered handler has
\* enabled = e and timeout t, every status file such a handler names holds
\* the record {enabled: e}, and the response reports e.
C18_ToggleSetsAll ==
    (reply.op = "set" /\ reply.code = 200) =>
        /\ lastToggle.set
        /\ reply.enabled = lastToggle.Enabled
        /\ \A h \in ActiveHandlers :
              /\ \E i \in DOMAIN maintenanceHandlers : maintenanceHandlers[i] = h
              /\ hs[h].enabled = lastToggle.Enabled
              /\ hs[h].RequestRetentionModeTimeout =
                     lastToggle.RequestRetentionModeTimeout
              /\ hs[h].StatusFile # "" =>
                     files[IF hs[h].StatusFile = "" THEN "a" ELSE hs[h].StatusFile]
                        = [kind |-> "object",
                           members |-> << <<"enabled",
                               IF lastToggle.Enabled THEN "true" ELSE "false">> >>]

\* two handlers with a status file each were switched on with a timeout
C18_Witness ==
    /\ reply.op = "set"
    /\ reply.code = 200
    /\ reply.enabled
    /\ lastToggle.RequestRetentionModeTimeout = 1
    /\ \E h, g \in ActiveHandlers :
          /\ hs[h].StatusFile = "a"
          /\ hs[g].StatusFile = "b"
          /\ ~hs[h].DefaultEnabled
          /\ files["a"] = files["b"]

\* C19: toggle/status round trip. getStatus answers 200 exactly when an
\* active handler is registered, and then reports true exactly when at
\* least one of them is enabled; after a successful toggle(e) with no
\* provisioning and no other toggle that reached the status files in
\* between, it reports e, however many handlers are registered.
C19_StatusAfterToggle ==
    reply.op = "status" =>
        /\ reply.code = (IF ActiveHandlers = {} THEN 404 ELSE 200)
        /\ reply.code = 200 =>
              (reply.enabled <=> \E h \in ActiveHandlers : hs[h].enabled)
        /\ (reply.code = 200 /\ lastToggle.set) =>
              (reply.enabled <=> lastToggle.Enabled)

\* getStatus reported the value true of the last toggle with two handlers
\* loaded
C19_Witness ==
    /\ reply.op = "status"
    /\ reply.code = 200
    /\ lastToggle.set
    /\ reply.enabled
    /\ lastToggle.Enabled
    /\ Cardinality(ActiveHandlers) = 2

\* C20: the admin endpoints answer errors by a fixed precedence. toggle
\* answers 405 to a request that is not a POST, else 400 to a body that does
\* not decode (also when no handler is registered), else 404 when no active
\* handler is registered, else 500 when marshalling or persisting the
\* status fails, else 200; getStatus answers 404 when no active handler is
\* registered.
C20_ErrorPrecedence ==
    [][/\ reply'.op = "set" =>
             LET q == reply'.req
                 withFile == \E h \in ActiveHandlers : hs[h].StatusFile # ""
             IN  /\ q.method # "POST" => reply'.code = 405
                 /\ (q.method = "POST" /\ ~q.wellFormed) => reply'.code = 400
                 /\ (q.method = "POST" /\ q.wellFormed /\ ActiveHandlers = {})
                        => reply'.code = 404
                 /\ (q.method = "POST" /\ q.wellFormed /\ ActiveHandlers # {})
                        => /\ reply'.code \in {200, 500}
                           /\ (withFile /\ q.marshalFails) => reply'.code = 500
                           /\ reply'.code = 500 <=>
                                 reply'.err \in {"marshal", "stat", "read", "write"}
                           /\ reply'.code = 500 => withFile
       /\ reply'.op = "status" =>
             (reply'.code = 404 <=> ActiveHandlers = {})]_vars

\* a POST whose marshalling would fail was answered 404, no handler being
\* left of those an earlier toggle had set
C20_Witness ==
    /\ reply.op = "set"
    /\ reply.code = 404
    /\ reply.req.marshalFails
    /\ lastToggle.set

C22_RetryAfter ==
    \A r \in Reqs :
        req[r].pageWrites > 0 =>
            req[r].resp.retryAfter =
                (IF cfg.RetryAfter >= 1 THEN cfg.RetryAfter ELSE 300)

\* a maintenance response got the default for a negative retry_after
C22_Witness ==
    \E r \in Reqs :
        /\ req[r].pageWrites > 0
        /\ cfg.RetryAfter < 0
        /\ req[r].resp.retryAfter = 300

\* C23: a forwarded request reaches the next handler with an untouched
\* response, on every forwarding path (disabled, path bypass, allowed
\* address, authenticated, released from a hold): the gate has written no
\* Retry-After, no WWW-Authenticate, no status and no body.
C23_ForwardUntouched ==
    \A r \in Reqs :
        req[r].nextCalls > 0 =>
            /\ req[r].cause \in {"disabled", "path", "ip", "auth", "released"}
            /\ req[r].resp.retryAfter = 0
            /\ req[r].resp.wwwAuth = ""
            /\ req[r].resp.status = 0
            /\ req[r].pageWrites = 0

\* a request held by a handler that challenges was released and forwarded
C23_Witness ==
    \E r \in Reqs :
        /\ req[r].nextCalls > 0
        /\ req[r].cause = "released"
        /\ cfg.HtpasswdFile
        /\ DOMAIN cfg.htpasswdEntries # {}
        /\ req[r].resp = NoResponse

\* C24: a handler that trusts forwarded headers is provisioned only with a
\* trusted-proxy set (addresses plus networks) that is not empty
C24_HeaderTrustNeedsProxy ==
    handler.err = "" /\ handler.UseForwardedHeaders
        => Len(handler.trustedProxyIPs) + Len(handler.trustedProxyNetworks) > 0

\* C25: after a load of the allowed IPs that failed, the handler holds no
\* allowed address and no allowed network, and isIPAllowed answers false for
\* every address
C25_NoPartialAllowSet ==
    handler.err = "failed to parse allowed IPs"
        => /\ handler.allowedIndividualIPs = <<>>
           /\ handler.allowedNetworks = <<>>
           /\ probe.fn = "isIPAllowed" => ~probe.allowed

\* C26: on a handler whose allowed IPs loaded, isIPAllowed answers true
\* exactly when the candidate is a well-formed address that equals a literal
\* entry or lies in the range of a CIDR entry; the range is computed here on
\* the two 16-bit halves of the addresses
C26_AllowedIffMatches ==
    LET pow[k \in 0..16] == IF k = 0 THEN 1 ELSE 2 * pow[k - 1]
        hi(a) == a[1] * 256 + a[2]
        lo(a) == a[3] * 256 + a[4]
        wellFormed(a) == Len(a) = 4 /\ \A i \in 1..4 : a[i] >= 0 /\ a[i] <= 255
        inRange(a, e) ==
            IF e.bits <= 16
            THEN hi(a) \div pow[16 - e.bits] = hi(e.addr) \div pow[16 - e.bits]
            ELSE /\ hi(a) = hi(e.addr)
                 /\ lo(a) \div pow[32 - e.bits] = lo(e.addr) \div pow[32 - e.bits]
        matches(a, e) ==
            IF e.bits = NoBits THEN e.addr = a ELSE inRange(a, e)
    IN  (probe.fn = "isIPAllowed"
            /\ handler.err \in {"", "failed to parse trusted proxies"})
            => probe.allowed
                 = (/\ wellFormed(probe.candidate)
                    /\ \E i \in DOMAIN handler.AllowedIPs :
                          matches(probe.candidate, handler.AllowedIPs[i]))

C26_Witness ==
    /\ probe.fn = "isIPAllowed"
    /\ handler.err = ""
    /\ probe.candidate = IP_Proxy
    /\ probe.allowed
    /\ handler.AllowedIPsFile.set
    /\ Len(handler.AllowedIPs) = 4

\* C27: when the handler does not trust forwarded headers, or the direct
\* peer is not one of its trusted proxies, the resolved client address is the
\* peer address, and the request is decided as the same request without
\* X-Forwarded-For and X-Real-IP is
C27_UntrustedHopIgnored ==
    LET in == probe.in
        peerTrusted ==
            \/ \E i \in DOMAIN handler.trustedProxyIPs :
                  handler.trustedProxyIPs[i] = in.remote
            \/ \E i \in DOMAIN handler.trustedProxyNetworks :
                  NetContains(handler.trustedProxyNetworks[i], in.remote)
        bare == [in EXCEPT !.xff = <<>>, !.xrip = <<>>]
    IN  probe.fn = "ServeHTTP" /\ (~handler.UseForwardedHeaders \/ ~peerTrusted)
            => /\ probe.clientIP = in.remote
               /\ probe.clientIP = getClientIP(handler, bare)
               /\ probe.decision = AccessDecision(handler, bare).cause
               /\ probe.allowed = isIPAllowed(handler, in.remote)

\* an untrusted peer presents an allowed address in both headers and is denied
C27_Witness ==
    /\ probe.fn = "ServeHTTP"
    /\ handler.UseForwardedHeaders
    /\ handler.trustedProxyIPs = <<IP_Proxy>>
    /\ probe.in.remote = IP_Stranger
    /\ probe.in.xff = <<IP_Stranger, IP_Literal>>
    /\ probe.in.xrip = IP_Office
    /\ isIPAllowed(handler, IP_Literal)
    /\ isIPAllowed(handler, IP_Office)
    /\ probe.clientIP = IP_Stranger
    /\ ~probe.allowed
    /\ probe.decision = "deny"

C29_FailsClosed ==
    LET a == probe.in.auth
        colons == {i \in DOMAIN a.decoded : a.decoded[i] = ":"}
        first == CHOOSE i \in colons : \A j \in colons : i <= j
        user == SubSeq(a.decoded, 1, first - 1)
        known == colons # {} /\ user \in DOMAIN handler.htpasswdEntries
        bcrypt(hash) == Len(hash) >= 4 /\ hash[1] = "$" /\ hash[2] = "2"
        failing ==
            \/ ~handler.HtpasswdFile
            \/ DOMAIN handler.htpasswdEntries = {}
            \/ a.scheme # "Basic"
            \/ ~a.base64ok
            \/ colons = {}
            \/ ~known
            \/ ~bcrypt(handler.htpasswdEntries[user])
    IN  (probe.fn = "ServeHTTP" /\ failing)
            => /\ ~probe.authenticated
               /\ probe.decision \in {"ip", "deny"}
               /\ ~probe.allowed => probe.decision = "deny"

\* the right password against a stored hash of another scheme is denied
C29_Witness ==
    /\ probe.fn = "ServeHTTP"
    /\ handler.htpasswdEntries = ConfLegacyHash.htpasswdEntries
    /\ probe.in.auth = [scheme |-> "Basic", base64ok |-> TRUE,
                        decoded |-> User \o <<":">> \o Password]
    /\ ~probe.allowed
    /\ ~probe.authenticated
    /\ probe.decision = "deny"

\* C30: a toggle that answers 405, 400, 404 or 500 leaves the enabled flag
\* and the retention timeout of every handler as they were
C30_FailedToggleLeavesHandlers ==
    [][reply'.op = "set" /\ reply'.code # 200
          => \A h \in Handlers :
                /\ hs'[h].enabled = hs[h].enabled
                /\ hs'[h].RequestRetentionModeTimeout
                      = hs[h].RequestRetentionModeTimeout]_vars

\* a toggle, which carries no timeout, failed on the second status file: the
\* first file holds an enabled flag while every handler is still off and
\* keeps the timeout an earlier toggle gave it
C30_Witness ==
    /\ reply.op = "set"
    /\ reply.code = 500
    /\ reply.path = "b"
    /\ files["a"] = StatusRecord(TRUE)
    /\ Len(maintenanceHandlers) = 2
    /\ \A h \in {1, 2} : ~hs[h].enabled /\ hs[h].RequestRetentionModeTimeout = 1

\* C31: a toggle that answers with an error leaves every status file with
\* the content it had before the call, a file that did not exist absent
C31_FailedToggleRestoresFiles ==
    [][reply'.op = "set" /\ reply'.code # 200
          => \A p \in StatusPaths : files'[p] = files[p]]_vars

\* C32: the deadline timer of a held request is created with the retention
\* timeout read in the entry snapshot that decided to hold, so it is positive,
\* and the deadline does not change during the hold
C32_DeadlineFromSnapshot ==
    [][\A r \in Reqs :
          /\ (req[r].pc = "timer" /\ req'[r].pc = "hold")
                => /\ req'[r].dur = req[r].snapTimeout
                   /\ req'[r].dur > 0
          /\ (req[r].pc = "hold" /\ req'[r].pc = "hold")
                => req'[r].dur = req[r].dur]_vars

\* C33: a request that was denied is handed to the next handler only by a
\* periodic check of its hold that reads enabled = false, so never while
\* maintenance stayed enabled; and the maintenance response is written only
\* for a request whose entry snapshot read enabled = true
C33_DeniedForwardedOnlyOnRelease ==
    [][\A r \in Reqs :
          /\ (/\ req'[r].nextCalls > req[r].nextCalls
              /\ req'[r].snapEnabled
              /\ req'[r].checks = <<"path", "ip", "auth">>
              /\ Denied(req'[r]))
                => /\ req[r].pc = "hold"
                   /\ req[r].poll = 0
                   /\ ~enabled
                   /\ ~req[r].stayedOn
                   /\ req'[r].cause = "released"
          /\ req'[r].pageWrites > req[r].pageWrites
                => /\ req'[r].snapEnabled
                   /\ req'[r].nextCalls = 0]_vars

\* a denied request was held over a whole deadline with maintenance on and
\* got the maintenance response, never the next handler
C33_Witness ==
    \E r \in Reqs : /\ req[r].pc = "done"
                    /\ req[r].snapEnabled
                    /\ Denied(req[r])
                    /\ req[r].stayedOn
                    /\ req[r].cause = "timeout"
                    /\ req[r].held >= PollTicks
                    /\ req[r].nextCalls = 0
                    /\ req[r].pageWrites = 1

\* C34: when two calls of toggle that ran side by side have both returned
\* with success, every handler holds the same enabled flag and the same
\* retention timeout, and every status file holds the handlers' flag
C34_TogglesAtomic ==
    (\A t \in Togglers : pc[t] = "done")
        => /\ \A g, h \in Handlers :
                 /\ hs[g].enabled = hs[h].enabled
                 /\ hs[g].RequestRetentionModeTimeout
                       = hs[h].RequestRetentionModeTimeout
           /\ \A h \in Handlers :
                 hs[h].StatusFile # ""
                     => files[hs[h].StatusFile] = StatusRecord(hs[h].enabled)

\* C35: a handler that a toggle has switched on since it was registered is
\* still on when Provision has assigned its initial state (before any toggle
\* the flag of a handler being provisioned is false)
C35_ToggleSurvivesProvision ==
    [][(pc["Provision"] = "137" /\ pc'["Provision"] = "138" /\ enabled)
          => enabled']_vars

\* C36: the registry never holds a handler twice, also when a handler that
\* is registered is registered again; the list a call of getStatus or toggle
\* works on holds no handler whose context was cancelled before the call,
\* and a toggle leaves the fields of such a handler alone
C36_RegistryInvariant ==
    [][/\ \A i, j \in DOMAIN maintenanceHandlers' :
             maintenanceHandlers'[i] = maintenanceHandlers'[j] => i = j
       /\ (reply'.op \in {"status", "set"} /\ reply'.code \notin {405, 400})
             => /\ \A i \in DOMAIN maintenanceHandlers' :
                      hs[maintenanceHandlers'[i]].state = "active"
                /\ \A h \in Handlers :
                      hs[h].state = "inactive" => hs'[h] = hs[h]
                /\ reply'.op = "status" =>
                      (reply'.enabled =>
                          \E h \in Handlers :
                              hs[h].state = "active" /\ hs[h].enabled)]_vars

\* a toggle wrote the status files of two loaded handlers; the second was
\* then unloaded, and the status call that followed works on the first alone
C36_Witness ==
    /\ lastToggle.set
    /\ lastToggle.paths = {"a", "b"}
    /\ hs[1].state = "active"
    /\ hs[2].state = "inactive"
    /\ reply.op = "status"
    /\ reply.code = 200
    /\ maintenanceHandlers = <<1>>

\* C37: parseAllowedIPs called again on a handler whose configuration was
\* not changed leaves the lists of allowed addresses and of allowed networks
\* as the first call made them
C37_ParseAgainSameLists ==
    [][(handler.err = "" /\ handler'.err = "")
          => /\ handler'.allowedIndividualIPs = handler.allowedIndividualIPs
             /\ handler'.allowedNetworks = handler.allowedNetworks]_vars

\* C38: isPathBypassed answers true only when the request path, its
\* trailing slash taken off, is an entry, or is the directory P of an entry
\* P/* or lies below it, that is starts with P followed by a slash
C38_BypassOnSegmentBoundary ==
    LET strip(p) == IF Len(p) > 0 /\ p[Len(p)] = "/"
                    THEN SubSeq(p, 1, Len(p) - 1) ELSE p
        norm(p) == IF strip(p) = <<>> THEN <<"/">> ELSE strip(p)
        path == norm(probe.in.path)
        wildcard(e) == Len(e) >= 2 /\ e[Len(e) - 1] = "/" /\ e[Len(e)] = "*"
        dir(e) == SubSeq(e, 1, Len(e) - 2)
        below(e) ==
            /\ Len(path) > Len(dir(e))
            /\ SubSeq(path, 1, Len(dir(e)) + 1) = dir(e) \o <<"/">>
        matches(e) ==
            \/ path = norm(e)
            \/ wildcard(e) /\ (path = norm(dir(e)) \/ below(e))
    IN  (probe.fn = "isPathBypassed" /\ probe.allowed)
            => \E i \in DOMAIN handler.BypassPaths :
                   matches(handler.BypassPaths[i])

\* C39: while the retention timeout is the positive one of the
\* configuration, a successful toggle whose body has no
\* request_retention_mode_timeout leaves it as it is
C39_TimeoutSurvivesToggle ==
    [][\A a \in AdminCalls :
          (/\ cfg.RequestRetentionModeTimeout > 0
           /\ RequestRetentionModeTimeout = cfg.RequestRetentionModeTimeout
           /\ ~a.hasTimeout
           /\ ToggleStatus(a) = 200
           /\ toggle(a))
          => RequestRetentionModeTimeout' = RequestRetentionModeTimeout]_vars
====
